---- MODULE Spec2Model ----
(***************************************************************************)
(* Document analysis engine: extract_bullet_points, get_summary and        *)
(* classify_intent of utils/document_processor.py, with the mock pipeline  *)
(* of utils/nlp_models.py.  A text is a sequence of characters, a          *)
(* character a one-character string (the bullet glyph U+2022 is BULLET).   *)
(***************************************************************************)
EXTENDS Integers, Sequences, FiniteSets, TLC

VARIABLES
  op,                \* the entry point that runs: "bullets", "summary", "intent", "confidence"
  pc,                \* position inside that entry point
  text,              \* processed_doc["text"]
  language,          \* the language tag passed to the entry point
  paragraphs,        \* `paragraphs`, the text split at blank lines
  bullets,           \* extract_bullet_points: the accumulator `bullets`
  enhanced_bullets,  \* extract_bullet_points: `enhanced_bullets`
  para_idx,          \* get_summary: the paragraph the loop is at (from 1)
  summaries,         \* get_summary: `summaries`
  calls,             \* get_summary: the calls made to the summarizer, in order
  faults,            \* calls to a pipeline that did not return a well-formed result
  result,            \* classify_intent: `result`, what the classifier call gave
  intent,            \* classify_intent: `intent`
  score,             \* classify_intent: `score`, a fraction [num, den]
  confidence_level,  \* classify_intent: `confidence_level`
  loaded_models,     \* nlp_models._loaded_models: language -> model instance (0: no entry)
  threads,           \* the analyses running load_model_for_language, one record each
  instances,         \* the MockNLPModel instances created so far: instance k is for language instances[k]
  handed_out,        \* the pairs <<language, instance>> load_model_for_language has returned
  returned,          \* the value returned to the caller (NoValue before the return)
  chunks,            \* process_document: `chunks`, one document per slice
  chunk_start,       \* process_document: the loop variable `i`, an offset from 0
  session_state,     \* app.py: st.session_state, key -> value (Absent: no such key)
  widgets,           \* app.py: the text, language and checkboxes of the current script run
  export_data,       \* app.py: `export_data`, what the CSV download holds
  pdf_data,          \* app.py: what create_analysis_pdf was given and put in the report
  runs               \* app.py: the 'Process Document' runs of this browser session so far

vars == <<op, pc, text, language, paragraphs, bullets, enhanced_bullets, para_idx, summaries,
          calls, faults, result, intent, score, confidence_level, loaded_models, threads,
          instances, handed_out, returned, chunks, chunk_start, session_state, widgets,
          export_data, pdf_data, runs>>

\* what each entry point leaves alone
bulletVars == <<bullets, enhanced_bullets>>

summaryVars == <<para_idx, summaries, calls>>

intentVars == <<result, intent, score, confidence_level>>

cacheVars == <<loaded_models, threads, instances, handed_out>>

chunkVars == <<chunks, chunk_start>>

appVars == <<session_state, widgets, export_data, pdf_data, runs>>

\* st.selectbox("Select document language:", ...)
Languages == {"English", "Hindi", "Marathi", "Tamil"}

NoValue == "<none>"

\* a score is a fraction num/den
Fraction(n, d) == [num |-> n, den |-> d]

\* `result` and `score` of classify_intent before they are assigned
NoResult == [unassigned |-> TRUE]

NoScore == Fraction(0, 0)

\* _loaded_models = {}
EmptyCache == [l \in Languages |-> 0]

\* a key st.session_state does not hold; the value v of a key it holds is <<v>>
Absent == <<>>

\* the keys the process handler stores (app.py lines 129-131, 138, 145, 162-163)
SessionKeys == {"processed", "text", "language", "summary", "bullets", "intent", "explanation"}

\* st.session_state of a new browser session
EmptySession == [k \in SessionKeys |-> Absent]

\* before the first script run no widget has a value
NoWidgets == [submitted |-> FALSE]

\* no download has been offered
NoExport == [offered |-> FALSE]

(***************************************************************************)
(* Characters and Python's str / re primitives                             *)
(***************************************************************************)
NL == "\n"
TAB == "\t"
BULLET == "<U+2022>"

\* \s of the re module, restricted to the characters of the modelled alphabet
Whitespace == {" ", NL, TAB}

\* \d
Digits == {"0", "1", "2", "3", "4", "5", "6", "7", "8", "9"}

DigitChar == <<"0", "1", "2", "3", "4", "5", "6", "7", "8", "9">>

\* [.!?] of the sentence boundary
Terminators == {".", "!", "?"}

ToLower ==
  ("A" :> "a") @@ ("B" :> "b") @@ ("C" :> "c") @@ ("D" :> "d") @@ ("E" :> "e") @@
  ("F" :> "f") @@ ("G" :> "g") @@ ("H" :> "h") @@ ("I" :> "i") @@ ("J" :> "j") @@
  ("K" :> "k") @@ ("L" :> "l") @@ ("M" :> "m") @@ ("N" :> "n") @@ ("O" :> "o") @@
  ("P" :> "p") @@ ("Q" :> "q") @@ ("R" :> "r") @@ ("S" :> "s") @@ ("T" :> "t") @@
  ("U" :> "u") @@ ("V" :> "v") @@ ("W" :> "w") @@ ("X" :> "x") @@ ("Y" :> "y") @@
  ("Z" :> "z")

UpperCase == DOMAIN ToLower

Min(a, b) == IF a <= b THEN a ELSE b

Max(a, b) == IF a >= b THEN a ELSE b

\* str.lower()
Lower(s) == [i \in 1..Len(s) |-> IF s[i] \in UpperCase THEN ToLower[s[i]] ELSE s[i]]

\* s[:n]
Take(s, n) == SubSeq(s, 1, Min(n, Len(s)))

\* s[n:]  (n counted from 0)
Drop(s, n) == SubSeq(s, Min(n, Len(s)) + 1, Len(s))

\* s starts with w at position i (1-based)
MatchAt(s, w, i) ==
  /\ i >= 1
  /\ i + Len(w) - 1 <= Len(s)
  /\ \A j \in 1..Len(w) : s[i + j - 1] = w[j]

\* `w in s` for strings
Contains(s, w) == \E i \in 1..(Len(s) - Len(w) + 1) : MatchAt(s, w, i)

\* `w in t[:n].lower()`, read off t in place
LowerCharOmitted(c) == c

LowerChar(c) == IF c \in UpperCase THEN ToLower[c] ELSE c

InLoweredPrefix(t, n, w) ==
  \E i \in 1..(Min(n, Len(t)) - Len(w) + 1) :
    \A j \in 1..Len(w) : LowerChar(t[i + j - 1]) = w[j]

\* any(w in s for w in words)
ContainsAny(s, words) == \E k \in 1..Len(words) : Contains(s, words[k])

\* `x in xs` for a list
InList(x, xs) == \E k \in 1..Len(xs) : xs[k] = x

\* the first position >= i holding no whitespace (Len(s) + 1 when there is none)
SkipWs(s, i) ==
  CHOOSE k \in i..(Len(s) + 1) :
    /\ k = Len(s) + 1 \/ s[k] \notin Whitespace
    /\ \A m \in i..(k - 1) : s[m] \in Whitespace

\* the last position <= i holding no whitespace (0 when there is none)
SkipWsBack(s, i) ==
  i - (CHOOSE d \in 0..i :
         /\ d = i \/ s[i - d] \notin Whitespace
         /\ \A m \in 0..(d - 1) : s[i - m] \in Whitespace)

\* str.strip()
Strip(s) == SubSeq(s, SkipWs(s, 1), SkipWsBack(s, Len(s)))

\* the elements of a finite set of integers in increasing order
SortedSeq(S) ==
  [k \in 1..Cardinality(S) |-> CHOOSE x \in S : Cardinality({y \in S : y < x}) = k - 1]

\* re.split: the pieces of s around the separators, given as the set of their
\* <<first, last>> positions (non-overlapping)
SplitAround(s, seps) ==
  LET starts == SortedSeq({sep[1] : sep \in seps})
      ends == SortedSeq({sep[2] : sep \in seps})
      n == Len(starts)
  IN [k \in 1..(n + 1) |->
        SubSeq(s, IF k = 1 THEN 1 ELSE ends[k - 1] + 1,
                  IF k = n + 1 THEN Len(s) ELSE starts[k] - 1)]

\* the last newline of the run of whitespace that starts at i
LastNewlineOfRun(s, i) ==
  LET nls == {k \in i..(SkipWs(s, i) - 1) : s[k] = NL}
  IN CHOOSE k \in nls : \A m \in nls : k >= m

\* the matches of \n\s*\n, leftmost first and greedy: in a run of whitespace
\* holding two newlines or more, from its first newline to its last
ParagraphSeparators(s) ==
  {<<i, LastNewlineOfRun(s, i)>> :
     i \in {k \in 1..Len(s) :
              /\ s[k] = NL
              /\ \A m \in (SkipWsBack(s, k) + 1)..(k - 1) : s[m] # NL
              /\ LastNewlineOfRun(s, k) > k}}

\* re.split(r'\n\s*\n', s)
SplitParagraphs(s) == SplitAround(s, ParagraphSeparators(s))

\* the matches of (?<=[.!?])\s+ : the runs of whitespace that follow a terminator
SentenceSeparators(s) ==
  {<<i, SkipWs(s, i) - 1>> : i \in {k \in 2..Len(s) : s[k] \in Whitespace /\ s[k - 1] \in Terminators}}

\* re.split(r'(?<=[.!?])\s+', s)
SplitSentences(s) == SplitAround(s, SentenceSeparators(s))

RECURSIVE JoinFrom(_, _, _)
JoinFrom(parts, sep, k) ==
  IF k > Len(parts) THEN <<>>
  ELSE IF k = Len(parts) THEN parts[k]
  ELSE parts[k] \o sep \o JoinFrom(parts, sep, k + 1)

\* sep.join(parts)
Join(parts, sep) == JoinFrom(parts, sep, 1)

(***************************************************************************)
(* extract_bullet_points: the vocabularies                                 *)
(***************************************************************************)
indicators ==
  << <<"i","m","p","o","r","t","a","n","t">>,
     <<"s","i","g","n","i","f","i","c","a","n","t">>,
     <<"k","e","y">>,
     <<"m","a","i","n">>,
     <<"p","r","i","m","a","r","y">>,
     <<"e","s","s","e","n","t","i","a","l">>,
     <<"c","r","u","c","i","a","l">>,
     <<"c","r","i","t","i","c","a","l">>,
     <<"f","u","n","d","a","m","e","n","t","a","l">>,
     <<"t","h","e","r","e","f","o","r","e">>,
     <<"t","h","u","s">>,
     <<"h","e","n","c","e">>,
     <<"a","c","c","o","r","d","i","n","g","l","y">>,
     <<"c","o","n","s","e","q","u","e","n","t","l","y">>,
     <<"a","s"," ","a"," ","r","e","s","u","l","t">>,
     <<"i","n"," ","c","o","n","c","l","u","s","i","o","n">>,
     <<"t","o"," ","s","u","m","m","a","r","i","z","e">>,
     <<"m","u","s","t">>,
     <<"s","h","o","u","l","d">>,
     <<"s","h","a","l","l">>,
     <<"w","i","l","l">>,
     <<"r","e","q","u","i","r","e","d">>,
     <<"n","o","t","e","w","o","r","t","h","y">>,
     <<"n","o","t","a","b","l","y">>,
     <<"p","a","r","t","i","c","u","l","a","r","l","y">>,
     <<"e","s","p","e","c","i","a","l","l","y">>,
     <<"s","p","e","c","i","f","i","c","a","l","l","y">>,
     <<"p","r","i","m","a","r","i","l","y">>,
     <<"c","h","i","e","f","l","y">>,
     <<"m","a","i","n","l","y">>,
     <<"p","r","e","d","o","m","i","n","a","n","t","l","y">>,
     <<"p","r","i","n","c","i","p","a","l","l","y">>,
     <<"s","i","g","n","i","f","i","c","a","n","t","l","y">>,
     <<"m","a","r","k","e","d","l","y">>,
     <<"s","u","b","s","t","a","n","t","i","a","l","l","y">>,
     <<"c","o","n","s","i","d","e","r","a","b","l","y">>,
     <<"u","n","d","o","u","b","t","e","d","l","y">>,
     <<"u","n","q","u","e","s","t","i","o","n","a","b","l","y">>,
     <<"i","n","d","i","s","p","u","t","a","b","l","y">>,
     <<"i","n","d","u","b","i","t","a","b","l","y">>,
     <<"e","v","i","d","e","n","t","l","y">>,
     <<"o","b","v","i","o","u","s","l","y">>,
     <<"p","l","a","i","n","l","y">>,
     <<"p","a","t","e","n","t","l","y">>,
     <<"m","a","n","i","f","e","s","t","l","y">>,
     <<"f","i","r","s","t","l","y">>,
     <<"s","e","c","o","n","d","l","y">>,
     <<"t","h","i","r","d","l","y">>,
     <<"f","i","n","a","l","l","y">>,
     <<"l","a","s","t","l","y">>,
     <<"i","n"," ","s","u","m","m","a","r","y">>,
     <<"i","n"," ","b","r","i","e","f">>,
     <<"i","n"," ","s","h","o","r","t">>,
     <<"o","v","e","r","a","l","l">> >>

topic_sentence_indicators ==
  << <<"t","h","i","s">>,
     <<"t","h","e","s","e">>,
     <<"s","u","c","h">>,
     <<"t","h","e">>,
     <<"o","u","r">>,
     <<"t","h","e","i","r">>,
     <<"w","e">>,
     <<"t","h","e","y">>,
     <<"a","c","c","o","r","d","i","n","g">>,
     <<"r","e","s","e","a","r","c","h">>,
     <<"s","t","u","d","y">>,
     <<"a","n","a","l","y","s","i","s">>,
     <<"e","v","i","d","e","n","c","e">>,
     <<"d","a","t","a">>,
     <<"r","e","p","o","r","t">>,
     <<"s","u","r","v","e","y">>,
     <<"i","n","v","e","s","t","i","g","a","t","i","o","n">>,
     <<"f","i","n","d","i","n","g","s">>,
     <<"r","e","s","u","l","t","s">> >>

large_number_words ==
  << <<"m","i","l","l","i","o","n">>,
     <<"b","i","l","l","i","o","n">>,
     <<"t","r","i","l","l","i","o","n">> >>

conclusion_words ==
  << <<"t","h","e","r","e","f","o","r","e">>,
     <<"t","h","u","s">>,
     <<"h","e","n","c","e">>,
     <<"r","e","s","u","l","t">>,
     <<"c","o","n","s","e","q","u","e","n","t","l","y">> >>

example_words ==
  << <<"e","x","a","m","p","l","e">>,
     <<"i","n","s","t","a","n","c","e">>,
     <<"i","l","l","u","s","t","r","a","t","e">>,
     <<"c","a","s","e">> >>

importance_words ==
  << <<"i","m","p","o","r","t","a","n","t">>,
     <<"c","r","u","c","i","a","l">>,
     <<"c","r","i","t","i","c","a","l">>,
     <<"e","s","s","e","n","t","i","a","l">> >>

PrefixConclusion == <<"C","o","n","c","l","u","s","i","o","n",":"," ">>

PrefixExample == <<"E","x","a","m","p","l","e",":"," ">>

PrefixKeyPoint == <<"K","e","y"," ","P","o","i","n","t",":"," ">>

PrefixStatistic == <<"S","t","a","t","i","s","t","i","c",":"," ">>

PrefixQuestion == <<"Q","u","e","s","t","i","o","n",":"," ">>

PrefixIntroduction == <<"I","n","t","r","o","d","u","c","t","i","o","n",":"," ">>

PrefixSummary == <<"S","u","m","m","a","r","y",":"," ">>

PrefixPoint == <<"P","o","i","n","t",":"," ">>

CategoryPrefixes ==
  {PrefixConclusion, PrefixExample, PrefixKeyPoint, PrefixStatistic,
   PrefixQuestion, PrefixIntroduction, PrefixSummary, PrefixPoint}

\* len(para.strip()) < 20 skips the paragraph in phases 1 and 2
MinParagraphLen == 20

\* len(sentence.strip()) < 15 skips the sentence
MinSentenceLen == 15

\* phase 2: len(sentences[0]) > 15
TopicSentenceLen == 15

\* phase 2 runs if len(bullets) < 15
Phase2Threshold == 15

\* phase 4: len(sentence) > 20
MinQuestionLen == 20

\* enhanced_bullets[:20]
MaxBullets == 20

(***************************************************************************)
(* extract_bullet_points: the patterns                                     *)
(***************************************************************************)
\* the first position >= i holding no digit (Len(s) + 1 when there is none)
SkipDigits(s, i) ==
  CHOOSE k \in i..(Len(s) + 1) :
    /\ k = Len(s) + 1 \/ s[k] \notin Digits
    /\ \A m \in i..(k - 1) : s[m] \in Digits

CharAt(s, i) == IF i >= 1 /\ i <= Len(s) THEN s[i] ELSE NoValue

\* re.match(r'^\s*\d+[\.\)]', sentence)
NumberedStart(sentence) ==
  LET p == SkipWs(sentence, 1)
      e == SkipDigits(sentence, p)
  IN e > p /\ CharAt(sentence, e) \in {".", ")"}

\* re.match(r'^\s*[•\-\*]', sentence)
BulletStart(sentence) == CharAt(sentence, SkipWs(sentence, 1)) \in {BULLET, "-", "*"}

\* the character class [•\-\*\d+[\.\)] of the clean-up pattern, which the first ] ends
MarkerClass == {BULLET, "-", "*", "+", "[", ".", ")"} \cup Digits

\* re.sub(r'^\s*[•\-\*\d+[\.\)]]\s*', '', sentence): leading whitespace, one
\* character of the class, a literal ], whitespace
StripMarker(sentence) ==
  LET p == SkipWs(sentence, 1)
  IN IF CharAt(sentence, p) \in MarkerClass /\ CharAt(sentence, p + 1) = "]"
     THEN SubSeq(sentence, SkipWs(sentence, p + 2), Len(sentence))
     ELSE sentence

\* re.search(r'\d+(\.\d+)?%', sentence)
HasPercentage(sentence) ==
  \E i \in 1..Len(sentence) :
    /\ sentence[i] \in Digits
    /\ LET e == SkipDigits(sentence, i)
       IN \/ CharAt(sentence, e) = "%"
          \/ /\ CharAt(sentence, e) = "."
             /\ CharAt(sentence, e + 1) \in Digits
             /\ CharAt(sentence, SkipDigits(sentence, e + 1)) = "%"

\* re.search(r'\$\d+', sentence)
HasMoney(sentence) ==
  \E i \in 1..Len(sentence) : sentence[i] = "$" /\ CharAt(sentence, i + 1) \in Digits

\* re.search(r'\d{4}', sentence)
HasYear(sentence) ==
  \E i \in 1..(Len(sentence) - 3) : \A k \in 0..3 : sentence[i + k] \in Digits

\* re.search(r'\d+\s*(million|billion|trillion)', sentence.lower())
HasLargeNumber(sentence) ==
  LET low == Lower(sentence)
  IN \E i \in 1..Len(low) :
       /\ low[i] \in Digits
       /\ \E k \in 1..Len(large_number_words) :
            MatchAt(low, large_number_words[k], SkipWs(low, SkipDigits(low, i)))

\* re.search(r'\d+%|\d+\.\d+%', bullet)
PercentPattern(bullet) ==
  \E i \in 1..Len(bullet) :
    /\ bullet[i] \in Digits
    /\ LET e == SkipDigits(bullet, i)
       IN \/ CharAt(bullet, e) = "%"
          \/ /\ CharAt(bullet, e) = "."
             /\ CharAt(bullet, e + 1) \in Digits
             /\ CharAt(bullet, SkipDigits(bullet, e + 1)) = "%"

(***************************************************************************)
(* extract_bullet_points: the four phases                                  *)
(***************************************************************************)
\* if x not in bullets: bullets.append(x)
AppendAlways(acc, x) == Append(acc, x)

AppendUnique(acc, x) == IF InList(x, acc) THEN acc ELSE Append(acc, x)

Phase1AcceptsUnfiltered(sentence) == Len(Strip(sentence)) >= MinSentenceLen

\* the test of phase 1 on one sentence
Phase1Accepts(sentence) ==
  /\ Len(Strip(sentence)) >= MinSentenceLen
  /\ \/ ContainsAny(Lower(sentence), indicators)
     \/ NumberedStart(sentence)
     \/ BulletStart(sentence)

\* clean_sentence
CleanLowered(sentence) == Lower(Strip(StripMarker(sentence)))

CleanSentence(sentence) == Strip(StripMarker(sentence))

RECURSIVE Phase1Sentences(_, _, _)
Phase1Sentences(sentences, k, acc) ==
  IF k > Len(sentences) THEN acc
  ELSE LET sentence == sentences[k]
           clean_sentence == CleanSentence(sentence)
       IN Phase1Sentences(sentences, k + 1,
            IF Phase1Accepts(sentence) /\ clean_sentence # <<>>
            THEN AppendUnique(acc, clean_sentence)
            ELSE acc)

RECURSIVE Phase1(_, _, _)
Phase1(paras, p, acc) ==
  IF p > Len(paras) THEN acc
  ELSE Phase1(paras, p + 1,
         IF Len(Strip(paras[p])) < MinParagraphLen THEN acc
         ELSE Phase1Sentences(SplitSentences(paras[p]), 1, acc))

\* the loop over sentences[1:] of phase 2
RECURSIVE Phase2Rest(_, _, _)
Phase2Rest(sentences, k, acc) ==
  IF k > Len(sentences) THEN acc
  ELSE LET sentence == sentences[k]
       IN Phase2Rest(sentences, k + 1,
            IF /\ Len(Strip(sentence)) >= MinSentenceLen
               /\ ContainsAny(Lower(sentence), topic_sentence_indicators)
            THEN AppendUnique(acc, sentence)
            ELSE acc)

\* phase 2 on one paragraph: its first sentence, then the topic-indicator sentences
Phase2Paragraph(para, acc) ==
  LET sentences == SplitSentences(para)
      first == IF Len(sentences) > 0 /\ Len(sentences[1]) > TopicSentenceLen
               THEN AppendUnique(acc, sentences[1])
               ELSE acc
  IN Phase2Rest(sentences, 2, first)

RECURSIVE Phase2(_, _, _)
Phase2(paras, p, acc) ==
  IF p > Len(paras) THEN acc
  ELSE Phase2(paras, p + 1,
         IF Len(Strip(paras[p])) < MinParagraphLen THEN acc
         ELSE Phase2Paragraph(paras[p], acc))

Phase3Accepts(sentence) ==
  \/ HasPercentage(sentence)
  \/ HasMoney(sentence)
  \/ HasYear(sentence)
  \/ HasLargeNumber(sentence)

RECURSIVE Phase3SentencesBackwards(_, _, _)
Phase3SentencesBackwards(sentences, k, acc) ==
  IF k > Len(sentences) THEN acc
  ELSE LET sentence == sentences[Len(sentences) + 1 - k]
       IN Phase3SentencesBackwards(sentences, k + 1,
            IF Phase3Accepts(sentence) THEN AppendUnique(acc, sentence) ELSE acc)

RECURSIVE Phase3Sentences(_, _, _)
Phase3Sentences(sentences, k, acc) ==
  IF k > Len(sentences) THEN acc
  ELSE Phase3Sentences(sentences, k + 1,
         IF Phase3Accepts(sentences[k]) THEN AppendUnique(acc, sentences[k]) ELSE acc)

RECURSIVE Phase3(_, _, _)
Phase3(paras, p, acc) ==
  IF p > Len(paras) THEN acc
  ELSE Phase3(paras, p + 1, Phase3Sentences(SplitSentences(paras[p]), 1, acc))

Phase4Accepts(sentence) == Contains(sentence, <<"?">>) /\ Len(sentence) > MinQuestionLen

RECURSIVE Phase4Sentences(_, _, _)
Phase4Sentences(sentences, k, acc) ==
  IF k > Len(sentences) THEN acc
  ELSE Phase4Sentences(sentences, k + 1,
         IF Phase4Accepts(sentences[k]) THEN AppendUnique(acc, sentences[k]) ELSE acc)

RECURSIVE Phase4(_, _, _)
Phase4(paras, p, acc) ==
  IF p > Len(paras) THEN acc
  ELSE Phase4(paras, p + 1, Phase4Sentences(SplitSentences(paras[p]), 1, acc))

(***************************************************************************)
(* extract_bullet_points: the category prefixes and the cap                *)
(***************************************************************************)
\* the prefix of bullets[i] (i counted from 0) in a list of n bullets;
\* i < n * 0.2 and i > n * 0.8 in doubles agree with 5i < n and 5i > 4n
CategoryPrefix(bullet, i, n) ==
  LET bullet_lower == Lower(bullet)
  IN IF ContainsAny(bullet_lower, conclusion_words) THEN PrefixConclusion
     ELSE IF ContainsAny(bullet_lower, example_words) THEN PrefixExample
     ELSE IF ContainsAny(bullet_lower, importance_words) THEN PrefixKeyPoint
     ELSE IF PercentPattern(bullet) THEN PrefixStatistic
     ELSE IF Contains(bullet, <<"?">>) THEN PrefixQuestion
     ELSE IF 5 * i < n THEN PrefixIntroduction
     ELSE IF 5 * i > 4 * n THEN PrefixSummary
     ELSE PrefixPoint

EnhancedByLanguage(bullet, i, n) ==
  IF language = "English" THEN CategoryPrefix(bullet, i, n) \o bullet ELSE PrefixPoint \o bullet

\* f"{prefix}{bullet}"
Enhanced(bullet, i, n) == CategoryPrefix(bullet, i, n) \o bullet

\* the loop over enumerate(bullets)
EnhanceAll(bs) == [k \in 1..Len(bs) |-> Enhanced(bs[k], k - 1, Len(bs))]

\* enhanced_bullets[:20]
Uncapped(bs) == bs

Capped(bs) == Take(bs, MaxBullets)

(***************************************************************************)
(* The documents analysed                                                  *)
(***************************************************************************)
\* sentences a document is composed of: an indicator sentence, a numbered item,
\* a bullet item the clean-up pattern strips, a statistic, a question, an amount,
\* a conclusion
Vocabulary ==
  << <<"T","h","i","s"," ","i","s"," ","i","m","p","o","r","t","a","n","t"," ","t","o"," ","u","s",".">>,
     <<"1",")"," ","P","a","y"," ","t","h","a","t"," ","f","e","e"," ","n","o","w",".">>,
     <<"-","]"," ","B","r","i","n","g"," ","t","w","o"," ","p","h","o","t","o","s",".">>,
     <<"C","o","s","t","s"," ","r","o","s","e"," ","1","2","%"," ","i","n"," ","2","0","2","1",".">>,
     <<"W","h","y"," ","w","a","s"," ","t","h","e"," ","r","e","p","l","y"," ","s","o"," ","l","a","t","e","?">>,
     <<"S","e","n","d"," ","$","5",".">>,
     <<"T","h","u","s"," ","i","t"," ","i","s"," ","c","l","o","s","e","d"," ","n","o","w",".">> >>

Separators ==
  << <<" ">>,
     <<NL,NL>>,
     <<NL," ",NL," ">> >>

\* the longest composed document, in sentences of Vocabulary
MaxPieces == 2

\* the longest numbered document, in sentences
MaxSentences == 22

RECURSIVE Composed(_)
Composed(n) ==
  IF n = 0 THEN {<<>>}
  ELSE IF n = 1 THEN {Vocabulary[v] : v \in 1..Len(Vocabulary)}
  ELSE {t \o Separators[s] \o Vocabulary[v] :
          t \in Composed(n - 1), s \in 1..Len(Separators), v \in 1..Len(Vocabulary)}

ComposedTexts == UNION {Composed(n) : n \in 0..MaxPieces}

\* the two decimal digits of n
TwoDigits(n) == <<DigitChar[(n \div 10) + 1], DigitChar[(n % 10) + 1]>>

SentenceKinds == {"key", "amount", "question", "plain"}

\* the n-th sentence of a numbered document
Numbered(kind, n) ==
  CASE kind = "key" ->
         <<"I","t","e","m"," ">> \o TwoDigits(n) \o <<" ","i","s"," ","a"," ","k","e","y"," ","p","a","r","t",".">>
    [] kind = "amount" -> <<"$">> \o TwoDigits(n) \o <<".">>
    [] kind = "question" ->
         <<"I","s"," ","n","u","m","b","e","r"," ">> \o TwoDigits(n) \o <<" ","r","i","g","h","t"," ","n","o","w","?">>
    [] kind = "plain" ->
         <<"U","n","i","t"," ">> \o TwoDigits(n) \o <<" ","w","a","s"," ","s","e","n","t"," ","b","a","c","k",".">>

NumberedText(kind, n, sep) == Join([k \in 1..n |-> Numbered(kind, k)], sep)

NumberedTexts ==
  {NumberedText(kind, n, Separators[s]) :
     kind \in SentenceKinds, n \in 1..MaxSentences, s \in 1..2}

\* a paragraph whose first sentence no phase but phase 2 accepts, followed by
\* a sentence holding a topic indicator
TopicPair(n) ==
  Numbered("plain", n) \o <<" ","T","h","e","y"," ","s","e","n","t"," ","i","t"," ","t","o"," ","u","s",".">>

\* documents of n indicator sentences, around the threshold of phase 2,
\* followed by a topic paragraph, an amount and a question
MixedTexts ==
  {Join(<<NumberedText("key", n, Separators[s]), TopicPair(n + 1),
          Numbered("amount", n + 2), Numbered("question", n + 3)>>, Separators[2]) :
     n \in (Phase2Threshold - 2)..(Phase2Threshold + 1), s \in 1..2}

\* paragraphs whose first sentence has 13, 15 and 16 characters
FirstSentenceTexts ==
  { <<"B","o","b"," ","r","a","n"," ","h","o","m","e","."," ","I","t"," ","r","a","i","n","e","d"," ","s","o",".">>,
    <<"B","o","b"," ","r","a","n"," ","h","o","m","e"," ","x","."," ","I","t"," ","r","a","i","n","e","d",".">>,
    <<"B","o","b"," ","r","a","n"," ","h","o","m","e"," ","o","k","."," ","I","t"," ","r","a","i","n","e","d",".">> }

\* the sentence of the example scenario
ThankYou ==
  <<"T","h","a","n","k"," ","y","o","u"," ","f","o","r"," ","y","o","u","r"," ","e","x","c","e","l","l","e","n","t",
    " ","a","s","s","i","s","t","a","n","c","e",","," ","w","e"," ","a","r","e"," ","v","e","r","y"," ",
    "g","r","a","t","e","f","u","l",".">>

\* documents of three paragraphs whose second paragraph holds ThankYou, alone
\* or behind another sentence; the first paragraph is one sentence of
\* Vocabulary or a run of indicator sentences around the threshold of phase 2
ThankYouTexts ==
  {Join(<<first, second, Vocabulary[last]>>, Separators[2]) :
     first \in {Vocabulary[v] : v \in {1, 5}}
                 \cup {NumberedText("key", n, Separators[1]) : n \in {Phase2Threshold - 1, Phase2Threshold}},
     second \in {ThankYou, Vocabulary[4] \o Separators[1] \o ThankYou},
     last \in {4, 7}}

BulletTexts ==
  ComposedTexts \cup NumberedTexts \cup MixedTexts \cup FirstSentenceTexts \cup ThankYouTexts

(***************************************************************************)
(* extract_bullet_points as a state machine: one step per phase            *)
(***************************************************************************)
InitBullets ==
  /\ op = "bullets"
  /\ pc = "phase1"
  /\ text \in BulletTexts
  /\ language \in Languages
  /\ paragraphs = <<>>
  /\ bullets = <<>>
  /\ enhanced_bullets = <<>>
  /\ para_idx = 0 /\ summaries = <<>> /\ calls = <<>>
  /\ faults = 0
  /\ result = NoResult /\ intent = NoValue /\ score = NoScore /\ confidence_level = NoValue
  /\ loaded_models = EmptyCache /\ threads = <<>> /\ instances = <<>> /\ handed_out = {}
  /\ returned = NoValue
  /\ chunks = <<>> /\ chunk_start = 0
  /\ session_state = EmptySession /\ widgets = NoWidgets
  /\ export_data = NoExport /\ pdf_data = NoExport /\ runs = 0

IndicatorPhase ==
  /\ op = "bullets" /\ pc = "phase1"
  /\ paragraphs' = SplitParagraphs(text)
  /\ bullets' = Phase1(paragraphs', 1, bullets)
  /\ pc' = "phase2"
  /\ UNCHANGED <<op, text, language, enhanced_bullets, summaryVars, faults, returned, intentVars, cacheVars, chunkVars, appVars>>

TopicSentencePhaseAlways ==
  /\ op = "bullets" /\ pc = "phase2"
  /\ bullets' = Phase2(paragraphs, 1, bullets)
  /\ pc' = "phase3"
  /\ UNCHANGED <<op, text, language, paragraphs, enhanced_bullets, summaryVars, faults, returned, intentVars, cacheVars, chunkVars, appVars>>

\* if len(bullets) < 15: the topic-sentence phase
TopicSentencePhase ==
  /\ op = "bullets" /\ pc = "phase2"
  /\ \/ /\ Len(bullets) < Phase2Threshold
        /\ bullets' = Phase2(paragraphs, 1, bullets)
     \/ /\ Len(bullets) >= Phase2Threshold
        /\ bullets' = bullets
  /\ pc' = "phase3"
  /\ UNCHANGED <<op, text, language, paragraphs, enhanced_bullets, summaryVars, faults, returned, intentVars, cacheVars, chunkVars, appVars>>

QuantitativePhase ==
  /\ op = "bullets" /\ pc = "phase3"
  /\ bullets' = Phase3(paragraphs, 1, bullets)
  /\ pc' = "phase4"
  /\ UNCHANGED <<op, text, language, paragraphs, enhanced_bullets, summaryVars, faults, returned, intentVars, cacheVars, chunkVars, appVars>>

QuestionPhase ==
  /\ op = "bullets" /\ pc = "phase4"
  /\ bullets' = Phase4(paragraphs, 1, bullets)
  /\ pc' = "enhance"
  /\ UNCHANGED <<op, text, language, paragraphs, enhanced_bullets, summaryVars, faults, returned, intentVars, cacheVars, chunkVars, appVars>>

EnhanceBullets ==
  /\ op = "bullets" /\ pc = "enhance"
  /\ enhanced_bullets' = EnhanceAll(bullets)
  /\ pc' = "return"
  /\ UNCHANGED <<op, text, language, paragraphs, bullets, summaryVars, faults, returned, intentVars, cacheVars, chunkVars, appVars>>

ReturnBullets ==
  /\ op = "bullets" /\ pc = "return"
  /\ returned' = Capped(enhanced_bullets)
  /\ pc' = "done"
  /\ UNCHANGED <<op, text, language, paragraphs, bulletVars, summaryVars, faults, intentVars, cacheVars, chunkVars, appVars>>

NextBullets ==
  \/ IndicatorPhase
  \/ TopicSentencePhase
  \/ QuantitativePhase
  \/ QuestionPhase
  \/ EnhanceBullets
  \/ ReturnBullets

SpecBullets == InitBullets /\ [][NextBullets]_vars

(***************************************************************************)
(* extract_bullet_points run twice on one text: the process handler of     *)
(* app.py keeps the text, the language and the bullets of a run in         *)
(* st.session_state, and the next run of the script calls                  *)
(* extract_bullet_points again                                             *)
(***************************************************************************)
\* the runs after the first
MaxReruns == 1

\* the longest text analysed twice, in sentences
MaxRerunSentences == 8

\* the texts that are analysed twice
RerunTexts ==
  {NumberedText(kind, n, Separators[s]) :
     kind \in SentenceKinds, n \in 1..MaxRerunSentences, s \in 1..2}

InitRerun ==
  /\ text \in RerunTexts
  /\ InitBullets

\* app.py lines 129-131 and 145 store the run's text, language and bullets;
\* the user then presses 'Process Document' again on the same text with a
\* language of their choice: process_document (line 126) loads the model of
\* that language if the cache has none, and extract_bullet_points starts over
RunAgain ==
  /\ op = "bullets" /\ pc = "done"
  /\ runs < MaxReruns
  /\ session_state' = [session_state EXCEPT !["processed"] = <<TRUE>>, !["text"] = <<text>>,
                                            !["language"] = <<language>>,
                                            !["bullets"] = <<returned>>]
  /\ runs' = runs + 1
  /\ \E l \in Languages :
       /\ language' = l
       /\ IF loaded_models[l] # 0
            THEN UNCHANGED <<loaded_models, instances>>
            ELSE /\ instances' = Append(instances, l)
                 /\ loaded_models' = [loaded_models EXCEPT ![l] = Len(instances) + 1]
  /\ paragraphs' = <<>>
  /\ bullets' = <<>>
  /\ enhanced_bullets' = <<>>
  /\ returned' = NoValue
  /\ pc' = "phase1"
  /\ UNCHANGED <<op, text, summaryVars, faults, intentVars, threads, handed_out, chunkVars,
                 widgets, export_data, pdf_data>>

NextRerun ==
  \/ IndicatorPhase
  \/ TopicSentencePhase
  \/ QuantitativePhase
  \/ QuestionPhase
  \/ EnhanceBullets
  \/ ReturnBullets
  \/ RunAgain

SpecRerun == InitRerun /\ [][NextRerun]_vars

(***************************************************************************)
(* MockTransformerPipeline._generate_summary                               *)
(***************************************************************************)
transitions ==
  << <<"A","d","d","i","t","i","o","n","a","l","l","y",","," ">>,
     <<"F","u","r","t","h","e","r","m","o","r","e",","," ">>,
     <<"M","o","r","e","o","v","e","r",","," ">>,
     <<"I","n"," ","a","d","d","i","t","i","o","n",","," ">>,
     <<"A","l","s","o",","," ">> >>

FinallyPhrase == <<"F","i","n","a","l","l","y",","," ">>

Ellipsis == <<".",".",".">>

Alphabet == <<"a","b","c","d","e","f","g","h","i","j","k","l","m","n","o","p","q","r","s","t","u","v","w","x","y","z">>

\* str.lstrip()
LStrip(s) == SubSeq(s, SkipWs(s, 1), Len(s))

\* [x for x in xs if keep(x)], for the two filters of _generate_summary
RECURSIVE NonBlank(_, _)
NonBlank(xs, k) ==
  IF k > Len(xs) THEN <<>>
  ELSE (IF Strip(xs[k]) # <<>> THEN <<xs[k]>> ELSE <<>>) \o NonBlank(xs, k + 1)

RECURSIVE NotIn(_, _, _)
NotIn(xs, ys, k) ==
  IF k > Len(xs) THEN <<>>
  ELSE (IF InList(xs[k], ys) THEN <<>> ELSE <<xs[k]>>) \o NotIn(xs, ys, k + 1)

\* summary_sentences: a spread over the text for more than 10 and more than 5
\* sentences (sentences[j] counted from 0), every sentence otherwise
SummarySentences(sentences) ==
  LET n == Len(sentences)
  IN IF n > 10
     THEN <<sentences[1], sentences[2], sentences[(n \div 4) + 1], sentences[(n \div 2) + 1],
            sentences[((3 * n) \div 4) + 1], sentences[n - 1], sentences[n]>>
     ELSE IF n > 5
     THEN <<sentences[1], sentences[2], sentences[(n \div 2) + 1], sentences[n - 1], sentences[n]>>
     ELSE sentences

\* the sentences joined, with transition phrases when there are more than two
Connected(filtered_sentences) ==
  LET n == Len(filtered_sentences)
  IN IF n > 2
     THEN Join([k \in 1..n |->
                  IF k = 1 THEN filtered_sentences[1]
                  ELSE IF k = n THEN FinallyPhrase \o LStrip(filtered_sentences[n])
                  ELSE transitions[((k - 2) % Len(transitions)) + 1] \o LStrip(filtered_sentences[k])],
               <<" ">>)
     ELSE Join(filtered_sentences, <<" ">>)

\* additional_text: remaining sentences are added while the summary is too short
RECURSIVE Additional(_, _, _, _, _)
Additional(summary, remaining, k, min_length, additional_text) ==
  IF k > Len(remaining) THEN additional_text
  ELSE IF Len(summary) + 1 + Len(additional_text) < min_length
  THEN Additional(summary, remaining, k + 1, min_length, additional_text \o <<" ">> \o remaining[k])
  ELSE additional_text

\* summary[:max_length] + "..." if len(summary) > max_length
Truncated(summary, max_length) ==
  IF Len(summary) > max_length THEN Take(summary, max_length) \o Ellipsis ELSE summary

\* result[0]['summary_text'] of summarizer(t, max_length=..., min_length=...)
GenerateSummary(t, max_length, min_length) ==
  LET sentences == SplitSentences(t)
      filtered_sentences == NonBlank(SummarySentences(sentences), 1)
      summary == Connected(filtered_sentences)
      padded == IF Len(summary) < min_length /\ Len(t) > min_length
                THEN summary \o Additional(summary, NotIn(sentences, filtered_sentences, 1), 1, min_length, <<>>)
                ELSE summary
  IN Truncated(padded, max_length)

(***************************************************************************)
(* get_summary                                                             *)
(***************************************************************************)
\* min(150, text_length // 4)
MaxSummaryLen == 150

\* min(30, max_length // 2)
MinSummaryLen == 30

\* if text_length > 1000
LongTextLen == 1000

\* if len(para.strip()) > 200
LongParagraphLen == 200

\* para[:100] + "..."
ParagraphFallbackLen == 100

\* if len(combined_summary) > 1000
LongCombinedLen == 1000

\* combined_summary[:200] + "..."
CombinedFallbackLen == 200

\* text[:150] + "..."
TextFallbackLen == 150

\* sentences[:3]
FallbackSentences == 3

max_length(t) == Min(MaxSummaryLen, Len(t) \div 4)

min_length(t) == Min(MinSummaryLen, max_length(t) \div 2)

\* what a call to the summarizer does: it returns a list holding a dict, it
\* raises, or it returns something else
Outcomes == {"ok", "raise", "malformed"}

\* at most this many calls of one run do not return a well-formed result
MaxFaults == 1

\* an exception that leaves the entry point, where a value was expected
Raised == "<exception>"

\* one call summarizer(input, max_length=maxl, min_length=minl) and what it did
Call(kind, input, maxl, minl, outcome) ==
  [kind |-> kind, input |-> input, max_length |-> maxl, min_length |-> minl,
   outcome |-> outcome]

\* lines 106-119: the value returned for a text of at most 1000 characters
DirectSummaryUnhandled(t, outcome) ==
  CASE outcome = "ok" -> GenerateSummary(t, max_length(t), min_length(t))
    [] outcome = "malformed" -> Take(t, TextFallbackLen) \o Ellipsis
    [] outcome = "raise" -> Raised

DirectSummary(t, outcome) ==
  CASE outcome = "ok" -> GenerateSummary(t, max_length(t), min_length(t))
    [] outcome = "malformed" -> Take(t, TextFallbackLen) \o Ellipsis
    [] outcome = "raise" -> Join(Take(SplitSentences(t), FallbackSentences), <<" ">>) \o Ellipsis

\* lines 69-81: the summary appended for a paragraph, under the halved budget
ParagraphSummaryFullBudget(t, para, outcome) ==
  CASE outcome = "ok" -> GenerateSummary(para, max_length(t), min_length(t))
    [] outcome = "malformed" -> Take(para, ParagraphFallbackLen) \o Ellipsis
    [] outcome = "raise" -> Take(para, ParagraphFallbackLen) \o Ellipsis

ParagraphSummary(t, para, outcome) ==
  CASE outcome = "ok" -> GenerateSummary(para, max_length(t) \div 2, min_length(t) \div 2)
    [] outcome = "malformed" -> Take(para, ParagraphFallbackLen) \o Ellipsis
    [] outcome = "raise" -> Take(para, ParagraphFallbackLen) \o Ellipsis

\* lines 87-98: the value returned for a combined summary of more than 1000 characters
CombinedSummary(t, combined_summary, outcome) ==
  CASE outcome = "ok" -> GenerateSummary(combined_summary, max_length(t), min_length(t))
    [] outcome = "malformed" -> Take(combined_summary, CombinedFallbackLen) \o Ellipsis
    [] outcome = "raise" -> combined_summary

\* if text_length > 1000
TakesParagraphPathFrom1000(t) == Len(t) >= LongTextLen

TakesParagraphPath(t) == Len(t) > LongTextLen

\* if len(para.strip()) > 200
Qualifies(para) == Len(Strip(para)) > LongParagraphLen

\* if len(combined_summary) > 1000
NeedsCombinationFrom1000(combined_summary) == Len(combined_summary) >= LongCombinedLen

NeedsCombination(combined_summary) == Len(combined_summary) > LongCombinedLen

(***************************************************************************)
(* The documents summarized                                                *)
(***************************************************************************)
\* the most paragraphs of more than 200 characters in a document
MaxParagraphs == 13

\* the most paragraphs of exactly 200 characters in a document
MaxEdgeParagraphs == 5

\* the most sentences of a one-paragraph document
MaxSummarySentences == 12

Rep(c, n) == [i \in 1..n |-> c]

Letter(k) == Alphabet[(k % Len(Alphabet)) + 1]

\* a sentence of len characters, its terminator included
Sentence(c, len) == Rep(c, len - 1) \o <<".">>

Sentences(n, len, k) == Join([j \in 1..n |-> Sentence(Letter(k + j), len)], <<" ">>)

\* a paragraph of more than 200 characters: 4 sentences of 51 (k odd), or 12 of 17
StandardParagraph(k) ==
  IF k % 2 = 1 THEN Sentences(4, 51, k) ELSE Sentences(12, 17, k)

\* a paragraph of 201 characters, 200 once trimmed
EdgeParagraph(k) == <<" ">> \o Sentence(Letter(k), LongParagraphLen)

\* a paragraph of six sentences whose summary (sentences 0, 1, 3, 4, 5 and four
\* phrases, 50 characters) has exactly len characters, for 60 <= len <= 75
TunedParagraph(len) ==
  Join(<<Sentence("p", 2), Sentence("q", 2), Sentence("r", LongParagraphLen),
         Sentence("s", 2), Sentence("t", 2), Sentence("u", len - 58)>>, <<" ">>)

\* e paragraphs of 200 characters, then n of more
Doc(n, e) ==
  Join([k \in 1..(e + n) |-> IF k <= e THEN EdgeParagraph(k) ELSE StandardParagraph(k - e)],
       <<NL, NL>>)

\* t followed by a paragraph that brings it to n characters
PadTo(t, n) == t \o <<NL, NL>> \o Sentence("z", n - Len(t) - 2)

\* two sentences far apart and a trailing blank: the summary is shorter than min_length
SparseText == Sentence("a", 3) \o Rep(" ", 250) \o Sentence("b", 3) \o <<" ">>

\* documents of every path of get_summary: up to MaxParagraphs long paragraphs;
\* paragraphs at the 200 boundary; 1000 and 1001 characters; combined summaries
\* of 1000 and 1001 characters; one-paragraph documents; a sparse one
SummaryTexts ==
  {Doc(n, 0) : n \in 0..MaxParagraphs}
  \cup {Doc(n, e) : n \in 0..1, e \in 1..MaxEdgeParagraphs}
  \cup {PadTo(Doc(4, 0), n) : n \in {LongTextLen, LongTextLen + 1}}
  \cup {Doc(11, 0) \o <<NL, NL>> \o TunedParagraph(65) \o <<NL, NL>> \o TunedParagraph(len) :
          len \in {65, 66}}
  \cup {Sentences(n, len, 0) : n \in 0..MaxSummarySentences, len \in {2, 9}}
  \cup {SparseText}

(***************************************************************************)
(* get_summary as a state machine: one step per call to the summarizer     *)
(***************************************************************************)
\* get_summary hands the tag to get_transformer_model (line 52) and reads it
\* nowhere else; _generate_summary never reads self.language, so the tags the
\* summary machine runs under are the first and the last of the selectbox.
SummaryLanguages == {"English", "Tamil"}

InitSummary ==
  /\ op = "summary"
  /\ pc = "start"
  /\ text \in SummaryTexts
  /\ language \in SummaryLanguages
  /\ paragraphs = <<>>
  /\ bullets = <<>> /\ enhanced_bullets = <<>>
  /\ para_idx = 0 /\ summaries = <<>> /\ calls = <<>>
  /\ faults = 0
  /\ result = NoResult /\ intent = NoValue /\ score = NoScore /\ confidence_level = NoValue
  /\ loaded_models = EmptyCache /\ threads = <<>> /\ instances = <<>> /\ handed_out = {}
  /\ returned = NoValue
  /\ chunks = <<>> /\ chunk_start = 0
  /\ session_state = EmptySession /\ widgets = NoWidgets
  /\ export_data = NoExport /\ pdf_data = NoExport /\ runs = 0

AllowedOutcomes == IF faults < MaxFaults THEN Outcomes ELSE {"ok"}

Fault(outcome) == IF outcome = "ok" THEN 0 ELSE 1

\* lines 104-119: a text of at most 1000 characters is summarized in one call
SummarizeDirectly ==
  /\ op = "summary" /\ pc = "start"
  /\ ~TakesParagraphPath(text)
  /\ \E outcome \in AllowedOutcomes :
       /\ calls' = Append(calls, Call("text", text, max_length(text), min_length(text), outcome))
       /\ returned' = DirectSummary(text, outcome)
       /\ faults' = faults + Fault(outcome)
  /\ pc' = "done"
  /\ UNCHANGED <<op, text, language, paragraphs, bulletVars, para_idx, summaries, intentVars, cacheVars, chunkVars, appVars>>

\* lines 62-64: a longer text is split into paragraphs
SplitText ==
  /\ op = "summary" /\ pc = "start"
  /\ TakesParagraphPath(text)
  /\ paragraphs' = SplitParagraphs(text)
  /\ para_idx' = 1
  /\ pc' = "paragraphs"
  /\ UNCHANGED <<op, text, language, bulletVars, summaries, calls, faults, returned, intentVars, cacheVars, chunkVars, appVars>>

\* lines 67-81: one turn of the loop over the paragraphs
SummarizeParagraph ==
  /\ op = "summary" /\ pc = "paragraphs"
  /\ para_idx <= Len(paragraphs)
  /\ \/ /\ Qualifies(paragraphs[para_idx])
        /\ \E outcome \in AllowedOutcomes :
             /\ calls' = Append(calls, Call("paragraph", paragraphs[para_idx],
                                            max_length(text) \div 2, min_length(text) \div 2, outcome))
             /\ summaries' = Append(summaries, ParagraphSummary(text, paragraphs[para_idx], outcome))
             /\ faults' = faults + Fault(outcome)
     \/ /\ ~Qualifies(paragraphs[para_idx])
        /\ UNCHANGED <<calls, summaries, faults>>
  /\ para_idx' = para_idx + 1
  /\ UNCHANGED <<op, pc, text, language, paragraphs, bulletVars, returned, intentVars, cacheVars, chunkVars, appVars>>

\* lines 83-103: after the loop
FinishSummary ==
  /\ op = "summary" /\ pc = "paragraphs"
  /\ para_idx > Len(paragraphs)
  /\ \/ /\ Len(summaries) > 1
        /\ NeedsCombination(Join(summaries, <<" ">>))
        /\ \E outcome \in AllowedOutcomes :
             /\ calls' = Append(calls, Call("combined", Join(summaries, <<" ">>),
                                            max_length(text), min_length(text), outcome))
             /\ returned' = CombinedSummary(text, Join(summaries, <<" ">>), outcome)
             /\ faults' = faults + Fault(outcome)
     \/ /\ Len(summaries) > 1
        /\ ~NeedsCombination(Join(summaries, <<" ">>))
        /\ returned' = Join(summaries, <<" ">>)
        /\ UNCHANGED <<calls, faults>>
     \/ /\ Len(summaries) = 1
        /\ returned' = summaries[1]
        /\ UNCHANGED <<calls, faults>>
     \/ /\ Len(summaries) = 0
        /\ returned' = Take(text, max_length(text)) \o Ellipsis
        /\ UNCHANGED <<calls, faults>>
  /\ pc' = "done"
  /\ UNCHANGED <<op, text, language, paragraphs, bulletVars, para_idx, summaries, intentVars, cacheVars, chunkVars, appVars>>

NextSummary ==
  \/ SummarizeDirectly
  \/ SplitText
  \/ SummarizeParagraph
  \/ FinishSummary

SpecSummary == InitSummary /\ [][NextSummary]_vars

(***************************************************************************)
(* MockTransformerPipeline._classify_text                                  *)
(***************************************************************************)
\* categories of classify_intent, handed over as candidate_labels
categories == <<"Complaint", "Request", "Update/Notification", "Appreciation">>

keyword_categories ==
  ("Complaint" :>
     << <<"i","s","s","u","e">>,
        <<"p","r","o","b","l","e","m">>,
        <<"c","o","m","p","l","a","i","n","t">>,
        <<"d","i","s","s","a","t","i","s","f","i","e","d">>,
        <<"d","i","s","a","p","p","o","i","n","t","e","d">>,
        <<"p","o","o","r">>,
        <<"b","a","d">>,
        <<"t","e","r","r","i","b","l","e">> >>)
  @@ ("Request" :>
     << <<"p","l","e","a","s","e">>,
        <<"r","e","q","u","e","s","t">>,
        <<"k","i","n","d","l","y">>,
        <<"c","o","u","l","d"," ","y","o","u">>,
        <<"w","o","u","l","d"," ","y","o","u">>,
        <<"n","e","e","d">>,
        <<"w","a","n","t">>,
        <<"a","s","k","i","n","g">> >>)
  @@ ("Update/Notification" :>
     << <<"u","p","d","a","t","e">>,
        <<"n","o","t","i","f","y">>,
        <<"i","n","f","o","r","m">>,
        <<"a","n","n","o","u","n","c","e">>,
        <<"n","o","t","i","c","e">>,
        <<"a","d","v","i","s","o","r","y">>,
        <<"b","u","l","l","e","t","i","n">>,
        <<"i","n","f","o","r","m","a","t","i","o","n">> >>)
  @@ ("Appreciation" :>
     << <<"t","h","a","n","k">>,
        <<"a","p","p","r","e","c","i","a","t","e">>,
        <<"g","r","a","t","e","f","u","l">>,
        <<"e","x","c","e","l","l","e","n","t">>,
        <<"g","o","o","d">>,
        <<"w","e","l","l"," ","d","o","n","e">>,
        <<"p","l","e","a","s","e","d">>,
        <<"h","a","p","p","y">> >>)

\* 1 + int(random.random() * 9)
MinSeed == 1

MaxSeed == 9

SeedValuesToTen == MinSeed..(MaxSeed + 1)

SeedValues == MinSeed..MaxSeed

\* scores[category] after the counting loop: the number of the category's
\* keywords that occur in text_lower (0: the key is absent from the defaultdict)
KeywordCount(t, n, category) ==
  Cardinality({k \in 1..Len(keyword_categories[category]) :
                 InLoweredPrefix(t, n, keyword_categories[category][k])})

\* the scores of text_lower = text.lower() for the text t[:n]
KeywordScores(t, n) ==
  [k \in 1..Len(categories) |-> KeywordCount(t, n, categories[k])]

\* if not scores
NoKeywordFound(scores) == \A k \in 1..Len(scores) : scores[k] = 0

\* sorted(candidate_labels, key=lambda label: scores.get(label, 0), reverse=True):
\* descending by score, labels of equal score in the order of candidate_labels
RankTiesReversed(scores, a) ==
  1 + Cardinality({b \in 1..Len(scores) :
                     scores[b] > scores[a] \/ (scores[b] = scores[a] /\ b > a)})

Rank(scores, a) ==
  1 + Cardinality({b \in 1..Len(scores) :
                     scores[b] > scores[a] \/ (scores[b] = scores[a] /\ b < a)})

Ordered(scores) ==
  [r \in 1..Len(scores) |-> CHOOSE a \in 1..Len(scores) : Rank(scores, a) = r]

\* float(scores.get(label, 0.1)), in tenths
TenthsOfCountOnly(count) == 10 * count

Tenths(count) == IF count = 0 THEN 1 ELSE 10 * count

RECURSIVE SumTenths(_, _)
SumTenths(scores, k) ==
  IF k = 0 THEN 0 ELSE SumTenths(scores, k - 1) + Tenths(scores[k])

\* the dictionary the classifier returns for the scores of the four categories
\* (its 'sequence' entry, which classify_intent never reads, is left out)
Classified(scores) ==
  LET ordered == Ordered(scores)
      total == SumTenths(scores, Len(scores))
  IN [labels |-> [r \in 1..Len(ordered) |-> categories[ordered[r]]],
      scores |-> [r \in 1..Len(ordered) |-> Fraction(Tenths(scores[ordered[r]]), total)]]

(***************************************************************************)
(* classify_intent: the fixed texts of the explanation                     *)
(***************************************************************************)
\* explanations[intent]['main'] and ['details'], lines 304-345
explanations ==
  ("Complaint" :>
     [main |-> "The document contains expressions of dissatisfaction or descriptions of problems that need to be addressed.",
      details |->
        << "The text includes language that indicates dissatisfaction, frustration, or concerns.",
           "There may be descriptions of issues, problems, or negative experiences.",
           "The author appears to be seeking resolution, correction, or acknowledgment of a problem.",
           "The document likely uses words with negative connotations to describe a situation or experience.",
           "There may be explicit requests for corrective action or compensation." >>])
  @@ ("Request" :>
     [main |-> "The document is primarily asking for information, action, or consideration of a specific matter.",
      details |->
        << "The text contains explicit requests for action, information, or assistance.",
           "There is a clear expectation of a response or action from the recipient.",
           "The language is typically polite and formal, using phrases like 'kindly', 'please', or 'would you'.",
           "The document specifies what is being requested and often includes timeframes or deadlines.",
           "There may be references to previous communications or established processes." >>])
  @@ ("Update/Notification" :>
     [main |-> "The document provides information, updates, or notifications about policies, procedures, or events.",
      details |->
        << "The text focuses on delivering information rather than requesting action.",
           "There are statements of fact, announcements, or updates on specific topics.",
           "The document may include dates, times, locations, or other specific details about events or changes.",
           "The language is generally neutral and informative, rather than persuasive or emotional.",
           "There may be references to attachments, additional resources, or follow-up communications." >>])
  @@ ("Appreciation" :>
     [main |-> "The document expresses gratitude, acknowledgment, or positive feedback.",
      details |->
        << "The text contains expressions of thanks, gratitude, or appreciation.",
           "There are positive descriptions of actions, services, or assistance received.",
           "The document may acknowledge specific individuals, teams, or organizations.",
           "The language is warm, appreciative, and uses positive adjectives.",
           "There may be mentions of the positive impact of the actions being acknowledged." >>])

confidence_phrases ==
  ("high" :> "with high confidence")
  @@ ("medium" :> "with moderate confidence")
  @@ ("low" :> "with low confidence")

confidence_explanations ==
  ("high" :>
     "The confidence level is high, suggesting strong indicators of this intent in the text.")
  @@ ("medium" :>
     "The moderate confidence level indicates some clear indicators of this intent, though some aspects may be ambiguous.")
  @@ ("low" :>
     "The low confidence level suggests the intent classification is tentative, as the text may contain mixed signals or limited clear indicators.")

intent_keywords ==
  ("Complaint" :>
     << <<"i","s","s","u","e">>,
        <<"p","r","o","b","l","e","m">>,
        <<"c","o","n","c","e","r","n","e","d">>,
        <<"d","i","s","s","a","t","i","s","f","i","e","d">>,
        <<"d","i","s","a","p","p","o","i","n","t","e","d">>,
        <<"f","i","x">>,
        <<"r","e","s","o","l","v","e">>,
        <<"f","a","i","l","i","n","g">> >>)
  @@ ("Request" :>
     << <<"p","l","e","a","s","e">>,
        <<"r","e","q","u","e","s","t">>,
        <<"k","i","n","d","l","y">>,
        <<"w","o","u","l","d"," ","y","o","u">>,
        <<"c","o","u","l","d"," ","y","o","u">>,
        <<"n","e","e","d">>,
        <<"r","e","q","u","i","r","e">>,
        <<"p","r","o","v","i","d","e">> >>)
  @@ ("Update/Notification" :>
     << <<"i","n","f","o","r","m">>,
        <<"a","n","n","o","u","n","c","e">>,
        <<"u","p","d","a","t","e">>,
        <<"n","o","t","i","f","i","c","a","t","i","o","n">>,
        <<"a","d","v","i","s","e">>,
        <<"r","e","m","i","n","d","e","r">>,
        <<"s","c","h","e","d","u","l","e">>,
        <<"u","p","c","o","m","i","n","g">> >>)
  @@ ("Appreciation" :>
     << <<"t","h","a","n","k">>,
        <<"a","p","p","r","e","c","i","a","t","e">>,
        <<"g","r","a","t","e","f","u","l">>,
        <<"e","x","c","e","l","l","e","n","t">>,
        <<"o","u","t","s","t","a","n","d","i","n","g">>,
        <<"w","o","n","d","e","r","f","u","l">>,
        <<"h","e","l","p","f","u","l">>,
        <<"g","e","n","e","r","o","u","s">> >>)

(***************************************************************************)
(* classify_intent                                                         *)
(***************************************************************************)
\* sample_text = text[:1000]
SampleLen == 1000

\* text_sample = text[:2000].lower()
KeywordSampleLen == 2000

\* keyword_list = found_keywords[:5]
MaxKeywords == 5

\* score = 0.5
Half == Fraction(1, 2)

\* classifier(sample_text, candidate_labels=categories): the call returns the
\* dictionary of labels and scores, raises, returns a dictionary without them
\* (as __call__ does for a task it does not support), or returns empty lists
ClassifierOutcomes == {"ok", "raise", "unsupported", "empty"}

ClassifierResult(outcome, scores) ==
  CASE outcome = "ok" -> Classified(scores)
    [] outcome = "raise" -> [exception |-> "Exception"]
    [] outcome = "unsupported" -> [error |-> "Unsupported task"]
    [] outcome = "empty" -> [labels |-> <<>>, scores |-> <<>>]

\* isinstance(result, dict) and 'labels' in result and 'scores' in result
HasLabelsAndScores(r) == "labels" \in DOMAIN r /\ "scores" \in DOMAIN r

\* lines 289-301: the top label, categories[0] without one
TopIntentUnchecked(r) ==
  IF HasLabelsAndScores(r) /\ Len(r.labels) > 0 THEN r.labels[1] ELSE "Unknown"

TopIntent(r) ==
  IF HasLabelsAndScores(r) /\ Len(r.labels) > 0 THEN r.labels[1] ELSE categories[1]

\* lines 289-301: the top score, 0.5 without one
TopScoreZero(r) ==
  IF HasLabelsAndScores(r) /\ Len(r.scores) > 0 THEN r.scores[1] ELSE Fraction(0, 1)

TopScore(r) ==
  IF HasLabelsAndScores(r) /\ Len(r.scores) > 0 THEN r.scores[1] ELSE Half

\* lines 354-362: score > 0.8, score > 0.6, else
ConfidenceLevelInclusive(s) ==
  IF 5 * s.num >= 4 * s.den THEN "high"
  ELSE IF 5 * s.num >= 3 * s.den THEN "medium"
  ELSE "low"

ConfidenceLevel(s) ==
  IF 5 * s.num > 4 * s.den THEN "high"
  ELSE IF 5 * s.num > 3 * s.den THEN "medium"
  ELSE "low"

\* f"{score:.2f}": the hundredths nearest to the score, a tie going to the even one
Hundredths(s) ==
  LET q == (100 * s.num) \div s.den
      r == (100 * s.num) % s.den
  IN IF 2 * r > s.den \/ (2 * r = s.den /\ q % 2 = 1) THEN q + 1 ELSE q

Format2f(s) ==
  LET h == Hundredths(s)
  IN <<DigitChar[(h \div 100) + 1], ".", DigitChar[((h \div 10) % 10) + 1], DigitChar[(h % 10) + 1]>>

\* found_keywords = [word for word in intent_keywords[intent] if word in text_sample]
FoundKeywords(t, i) ==
  LET Found(word) == InLoweredPrefix(t, KeywordSampleLen, word)
  IN SelectSeq(intent_keywords[i], Found)

RECURSIVE DetailParts(_, _)
\* the five parts f"\n<bullet> {detail}"
DetailParts(details, k) ==
  IF k > Len(details) THEN <<>>
  ELSE <<NL, BULLET, " ", details[k]>> \o DetailParts(details, k + 1)

KeywordPartUncut(found_keywords) ==
  IF found_keywords = <<>> THEN <<>>
  ELSE <<NL, "Keywords detected: ">> \o Join(found_keywords, <<",", " ">>)

\* f"\nKeywords detected: {', '.join(keyword_list)}", only if found_keywords
KeywordPart(found_keywords) ==
  IF found_keywords = <<>> THEN <<>>
  ELSE <<NL, "Keywords detected: ">> \o Join(Take(found_keywords, MaxKeywords), <<",", " ">>)

\* "".join(explanation_parts): the fixed texts are single elements of the
\* sequence, the score and the keywords are spelled character by character
Explanation(t, i, s, level) ==
  <<explanations[i].main, " The document has been classified ", confidence_phrases[level], " (">>
    \o Format2f(s) \o <<").">>
    \o <<NL, "Detailed analysis:">>
    \o DetailParts(explanations[i].details, 1)
    \o KeywordPart(FoundKeywords(t, i))
    \o <<NL, confidence_explanations[level]>>

(***************************************************************************)
(* The documents classified                                                *)
(***************************************************************************)
Phrases ==
  << <<"H","e","l","l","o"," ","t","h","e","r","e",".">>,
     <<"P","L","E","A","S","E"," ","r","e","p","l","y",".">>,
     <<"T","h","a","n","k"," ","y","o","u",","," ","i","t"," ","w","a","s"," ","e","x","c","e","l","l","e","n","t",".">>,
     <<"T","h","e"," ","s","e","r","v","i","c","e"," ","w","a","s"," ","p","o","o","r",".">>,
     <<"W","e"," ","i","n","f","o","r","m"," ","y","o","u"," ","o","f"," ","a","n"," ","u","p","d","a","t","e",".">>,
     <<"K","i","n","d","l","y"," ","p","r","o","v","i","d","e"," ","w","h","a","t"," ","w","e"," ","n","e","e","d",";"," ","c","o","u","l","d"," ","y","o","u"," ","o","r"," ","w","o","u","l","d"," ","y","o","u","?">>,
     <<"F","i","x"," ","t","h","e"," ","i","s","s","u","e",".">>,
     <<"M","a","n","y"," ","t","h","a","n","k","s",".">> >>

\* how many phrases a short document is made of
MaxIntentPieces == 2

RECURSIVE PhraseTexts(_)
PhraseTexts(n) ==
  IF n = 0 THEN {<<>>}
  ELSE PhraseTexts(n - 1)
       \cup {IF t = <<>> THEN Phrases[k] ELSE t \o <<" ">> \o Phrases[k] :
               t \in PhraseTexts(n - 1), k \in 1..Len(Phrases)}

\* a phrase, filler up to n - 3 characters, and a second phrase that the cut
\* at n characters breaks after its third character
CutAt(first, n, second) ==
  first \o <<" ">> \o Rep("z", n - 3 - Len(first) - 1) \o second

\* a keyword cut by text[:1000], keywords between 1000 and 2000 characters,
\* and a keyword cut by text[:2000]
CutTexts ==
  {CutAt(Phrases[7], SampleLen, Phrases[2]),
   Phrases[2] \o <<" ">> \o Rep("z", SampleLen) \o <<" ">> \o Phrases[6],
   CutAt(Phrases[2], KeywordSampleLen, Phrases[6])}

\* the request letter of the specification's example
RequestExample ==
  <<"P","l","e","a","s","e"," ","p","r","o","v","i","d","e"," ","t","h","e"," ","r","e","q","u","e","s","t","e","d"," ","d","o","c","u","m","e","n","t","s"," ","b","y"," ","F","r","i","d","a","y","."," ","K","i","n","d","l","y"," ","r","e","s","p","o","n","d"," ","a","t"," ","y","o","u","r"," ","e","a","r","l","i","e","s","t"," ","c","o","n","v","e","n","i","e","n","c","e",".">>

IntentTexts == PhraseTexts(MaxIntentPieces) \cup CutTexts \cup {RequestExample}

\* the tag goes to get_transformer_model (line 277) and _classify_text never
\* reads self.language
IntentLanguages == {"English", "Tamil"}

\* the scores handed to the bucketing: the fractions n/d up to this denominator
MaxDenominator == 20

ScoreGrid == UNION {{Fraction(n, d) : n \in 0..d} : d \in 1..MaxDenominator}

(***************************************************************************)
(* classify_intent as a state machine                                      *)
(***************************************************************************)
InitIntent ==
  /\ op = "intent"
  /\ pc = "start"
  /\ text \in IntentTexts
  /\ language \in IntentLanguages
  /\ paragraphs = <<>>
  /\ bullets = <<>> /\ enhanced_bullets = <<>>
  /\ para_idx = 0 /\ summaries = <<>> /\ calls = <<>>
  /\ faults = 0
  /\ result = NoResult /\ intent = NoValue /\ score = NoScore /\ confidence_level = NoValue
  /\ loaded_models = EmptyCache /\ threads = <<>> /\ instances = <<>> /\ handed_out = {}
  /\ returned = NoValue
  /\ chunks = <<>> /\ chunk_start = 0
  /\ session_state = EmptySession /\ widgets = NoWidgets
  /\ export_data = NoExport /\ pdf_data = NoExport /\ runs = 0

\* lines 283-301: the classifier call on text[:1000] and the top label and
\* score taken from its result, or the defaults.  When no keyword occurs in
\* the sample the classifier draws a seed for each category.
Classify ==
  /\ op = "intent" /\ pc = "start"
  /\ LET counted == KeywordScores(text, SampleLen)
     IN \E outcome \in ClassifierOutcomes :
          \E scores \in (IF outcome = "ok" /\ NoKeywordFound(counted)
                         THEN [1..Len(categories) -> SeedValues]
                         ELSE {counted}) :
            /\ result' = ClassifierResult(outcome, scores)
            /\ faults' = faults + Fault(outcome)
  /\ intent' = TopIntent(result')
  /\ score' = TopScore(result')
  /\ pc' = "classified"
  /\ UNCHANGED <<op, text, language, paragraphs, bulletVars, summaryVars, confidence_level, returned,
                 cacheVars, chunkVars, appVars>>

\* lines 354-362: the confidence level of the score
BucketConfidence ==
  /\ pc = "classified"
  /\ confidence_level' = ConfidenceLevel(score)
  /\ pc' = "bucketed"
  /\ UNCHANGED <<op, text, language, paragraphs, bulletVars, summaryVars, faults, result, intent,
                 score, returned, cacheVars, chunkVars, appVars>>

\* lines 364-407: the explanation is put together and returned with the label
Explain ==
  /\ op = "intent" /\ pc = "bucketed"
  /\ returned' = <<intent, Explanation(text, intent, score, confidence_level)>>
  /\ pc' = "done"
  /\ UNCHANGED <<op, text, language, paragraphs, bulletVars, summaryVars, faults, intentVars, cacheVars, chunkVars, appVars>>

NextIntent ==
  \/ Classify
  \/ BucketConfidence
  \/ Explain

SpecIntent == InitIntent /\ [][NextIntent]_vars

(***************************************************************************)
(* The bucketing of lines 354-362 on its own, for any score in [0, 1]      *)
(***************************************************************************)
InitConfidence ==
  /\ op = "confidence"
  /\ pc = "classified"
  /\ text = <<>>
  /\ language \in Languages
  /\ paragraphs = <<>>
  /\ bullets = <<>> /\ enhanced_bullets = <<>>
  /\ para_idx = 0 /\ summaries = <<>> /\ calls = <<>>
  /\ faults = 0
  /\ result = NoResult /\ intent \in {categories[k] : k \in 1..Len(categories)}
  /\ score \in ScoreGrid
  /\ confidence_level = NoValue
  /\ loaded_models = EmptyCache /\ threads = <<>> /\ instances = <<>> /\ handed_out = {}
  /\ returned = NoValue
  /\ chunks = <<>> /\ chunk_start = 0
  /\ session_state = EmptySession /\ widgets = NoWidgets
  /\ export_data = NoExport /\ pdf_data = NoExport /\ runs = 0

NextConfidence == BucketConfidence

SpecConfidence == InitConfidence /\ [][NextConfidence]_vars

(***************************************************************************)
(* load_model_for_language and the cache _loaded_models, called by         *)
(* process_document from analyses that run side by side (one script thread *)
(* per browser session, all sharing the module's global dictionary)        *)
(***************************************************************************)
\* how many analyses run side by side
NumThreads == 2

\* how many times each of them calls load_model_for_language
MaxLoads == 2

Threads == 1..NumThreads

Idle == [pc |-> "idle", language |-> NoValue, nlp |-> 0, loads |-> 0]

InitCache ==
  /\ op = "load"
  /\ pc = "start"
  /\ text = <<>>
  /\ language = NoValue
  /\ paragraphs = <<>>
  /\ bullets = <<>> /\ enhanced_bullets = <<>>
  /\ para_idx = 0 /\ summaries = <<>> /\ calls = <<>>
  /\ faults = 0
  /\ result = NoResult /\ intent = NoValue /\ score = NoScore /\ confidence_level = NoValue
  /\ loaded_models = EmptyCache
  /\ threads = [t \in Threads |-> Idle]
  /\ instances = <<>>
  /\ handed_out = {}
  /\ returned = NoValue
  /\ chunks = <<>> /\ chunk_start = 0
  /\ session_state = EmptySession /\ widgets = NoWidgets
  /\ export_data = NoExport /\ pdf_data = NoExport /\ runs = 0

\* what load_model_for_language leaves alone
analysisVars == <<op, pc, text, language, paragraphs, bulletVars, summaryVars, faults, intentVars,
                  returned, chunkVars, appVars>>

\* process_document line 16: nlp = load_model_for_language(language)
CallLoad(t) ==
  /\ op = "load"
  /\ threads[t].pc = "idle"
  /\ threads[t].loads < MaxLoads
  /\ \E l \in Languages :
       threads' = [threads EXCEPT ![t] = [pc |-> "check", language |-> l, nlp |-> 0,
                                            loads |-> threads[t].loads + 1]]
  /\ UNCHANGED <<loaded_models, instances, handed_out>>
  /\ UNCHANGED analysisVars

\* lines 87-88: if language in _loaded_models: return _loaded_models[language]
CheckLoaded(t) ==
  /\ op = "load"
  /\ threads[t].pc = "check"
  /\ \/ /\ loaded_models[threads[t].language] # 0
        /\ handed_out' = handed_out \cup {<<threads[t].language, loaded_models[threads[t].language]>>}
        /\ threads' = [threads EXCEPT ![t].pc = "idle",
                                      ![t].nlp = loaded_models[threads[t].language]]
     \/ /\ loaded_models[threads[t].language] = 0
        /\ threads' = [threads EXCEPT ![t].pc = "create"]
        /\ UNCHANGED handed_out
  /\ UNCHANGED <<loaded_models, instances>>
  /\ UNCHANGED analysisVars

\* line 91: nlp = MockNLPModel(language)
CreateModel(t) ==
  /\ op = "load"
  /\ threads[t].pc = "create"
  /\ instances' = Append(instances, threads[t].language)
  /\ threads' = [threads EXCEPT ![t].pc = "store", ![t].nlp = Len(instances) + 1]
  /\ UNCHANGED <<loaded_models, handed_out>>
  /\ UNCHANGED analysisVars

\* line 94: _loaded_models[language] = nlp
StoreModel(t) ==
  /\ op = "load"
  /\ threads[t].pc = "store"
  /\ loaded_models' = [loaded_models EXCEPT ![threads[t].language] = threads[t].nlp]
  /\ threads' = [threads EXCEPT ![t].pc = "return"]
  /\ UNCHANGED <<instances, handed_out>>
  /\ UNCHANGED analysisVars

\* line 96: return nlp
ReturnModel(t) ==
  /\ op = "load"
  /\ threads[t].pc = "return"
  /\ handed_out' = handed_out \cup {<<threads[t].language, threads[t].nlp>>}
  /\ threads' = [threads EXCEPT ![t].pc = "idle"]
  /\ UNCHANGED <<loaded_models, instances>>
  /\ UNCHANGED analysisVars

NextCache ==
  \/ \E t \in Threads : CallLoad(t)
  \/ \E t \in Threads : CheckLoaded(t)
  \/ \E t \in Threads : CreateModel(t)
  \/ \E t \in Threads : StoreModel(t)
  \/ \E t \in Threads : ReturnModel(t)

SpecCache == InitCache /\ [][NextCache]_vars

(***************************************************************************)
(* process_document                                                        *)
(*                                                                         *)
(* The texts of this part have 100,000 characters and more.  They are kept *)
(* run-length encoded: a text is a sequence of runs <<c, n>>, n >= 1       *)
(* copies of the character c, and no two neighbouring runs have the same   *)
(* character, so that two texts are equal exactly when their runs are.     *)
(***************************************************************************)
\* line 21: max_chunk_size = 100000
max_chunk_size == 100000

\* len(t)
RECURSIVE RunsLenFrom(_, _)
RunsLenFrom(t, k) == IF k > Len(t) THEN 0 ELSE t[k][2] + RunsLenFrom(t, k + 1)

TextLen(t) == RunsLenFrom(t, 1)

\* t[:n] for n >= 0
RECURSIVE TakeChars(_, _)
TakeChars(t, n) ==
  IF n <= 0 \/ t = <<>> THEN <<>>
  ELSE IF t[1][2] >= n THEN << <<t[1][1], n>> >>
  ELSE << t[1] >> \o TakeChars(Tail(t), n - t[1][2])

\* t[n:] for n >= 0
RECURSIVE DropChars(_, _)
DropChars(t, n) ==
  IF t = <<>> THEN <<>>
  ELSE IF n <= 0 THEN t
  ELSE IF t[1][2] > n THEN << <<t[1][1], t[1][2] - n>> >> \o Tail(t)
  ELSE DropChars(Tail(t), n - t[1][2])

\* text[i:j] for 0 <= i <= j: Python clamps both ends of a slice to the string
Slice(t, i, j) == TakeChars(DropChars(t, i), j - i)

\* a + b
Concat(a, b) ==
  IF a = <<>> THEN b
  ELSE IF b = <<>> THEN a
  ELSE IF a[Len(a)][1] = b[1][1]
    THEN SubSeq(a, 1, Len(a) - 1) \o << <<b[1][1], a[Len(a)][2] + b[1][2]>> >> \o Tail(b)
  ELSE a \o b

\* MockNLPModel.__call__: the document of a text; its sentences, tokens and
\* entities are derived from 'text' alone and are not carried here
MockDocument(t, lang) == [text |-> t, language |-> lang]

NeedsChunksFrom100000(t) == TextLen(t) >= max_chunk_size

\* line 23, negated: if len(text) <= max_chunk_size ... else
NeedsChunks(t) == TextLen(t) > max_chunk_size

\* the documents handed to process_document have up to MaxChunks full chunks
MaxChunks == 3

\* the letters change every RunLen characters, one short of the chunk size, so
\* that every chunk boundary falls at a different place of a run
RunLen == max_chunk_size - 1

\* a text of n characters: RunLen times "a", RunLen times "b", ...
DocumentText(n) ==
  [k \in 1..((n + RunLen - 1) \div RunLen) |->
     <<Alphabet[k], IF k * RunLen <= n THEN RunLen ELSE n - (k - 1) * RunLen>>]

\* lengths at and around the multiples of the chunk size
DocumentLengths ==
  {0, 1, 5} \cup {k * max_chunk_size + d : k \in 1..MaxChunks, d \in {-1, 0, 1}}

DocumentLanguages == Languages

\* the cache a call can find: empty, or holding the model of one language
FoundCaches == {<<EmptyCache, <<>> >>} \cup
               {<<[EmptyCache EXCEPT ![l] = 1], <<l>> >> : l \in DocumentLanguages}

InitProcess ==
  /\ op = "process"
  /\ pc = "start"
  /\ text \in {DocumentText(n) : n \in DocumentLengths}
  /\ language \in DocumentLanguages
  /\ paragraphs = <<>>
  /\ bullets = <<>> /\ enhanced_bullets = <<>>
  /\ para_idx = 0 /\ summaries = <<>> /\ calls = <<>>
  /\ faults = 0
  /\ result = NoResult /\ intent = NoValue /\ score = NoScore /\ confidence_level = NoValue
  /\ \E c \in FoundCaches : loaded_models = c[1] /\ instances = c[2]
  /\ threads = <<>>
  /\ handed_out = {}
  /\ returned = NoResult
  /\ chunks = <<>> /\ chunk_start = 0
  /\ session_state = EmptySession /\ widgets = NoWidgets
  /\ export_data = NoExport /\ pdf_data = NoExport /\ runs = 0

\* what process_document leaves alone
outsideProcess == <<op, text, language, paragraphs, bulletVars, summaryVars, faults, intentVars,
                    threads, handed_out, appVars>>

\* line 16: nlp = load_model_for_language(language), here without another
\* analysis running (nlp_models.py lines 87-96)
LoadModel ==
  /\ op = "process"
  /\ pc = "start"
  /\ IF loaded_models[language] # 0
       THEN UNCHANGED <<loaded_models, instances>>
       ELSE /\ instances' = Append(instances, language)
            /\ loaded_models' = [loaded_models EXCEPT ![language] = Len(instances) + 1]
  /\ pc' = "loaded"
  /\ UNCHANGED <<returned, chunkVars>>
  /\ UNCHANGED outsideProcess

\* lines 23-25: the text is processed in one call
ProcessWhole ==
  /\ op = "process"
  /\ pc = "loaded"
  /\ ~NeedsChunks(text)
  /\ returned' = [doc |-> MockDocument(text, language), text |-> text, language |-> language]
  /\ pc' = "done"
  /\ UNCHANGED <<loaded_models, instances, chunkVars>>
  /\ UNCHANGED outsideProcess

\* lines 26-28: chunks = []; for i in range(0, len(text), max_chunk_size)
StartChunks ==
  /\ op = "process"
  /\ pc = "loaded"
  /\ NeedsChunks(text)
  /\ chunks' = <<>>
  /\ chunk_start' = 0
  /\ pc' = "chunking"
  /\ UNCHANGED <<loaded_models, instances, returned>>
  /\ UNCHANGED outsideProcess

\* lines 29-30: chunk = text[i:i + max_chunk_size]; chunks.append(nlp(chunk))
ProcessChunk ==
  /\ op = "process"
  /\ pc = "chunking"
  /\ chunk_start < TextLen(text)
  /\ chunks' = Append(chunks, MockDocument(Slice(text, chunk_start, chunk_start + max_chunk_size),
                                           language))
  /\ chunk_start' = chunk_start + max_chunk_size
  /\ UNCHANGED <<pc, loaded_models, instances, returned>>
  /\ UNCHANGED outsideProcess

\* lines 33-38: the loop is over; return the chunks and the full text
ReturnChunks ==
  /\ op = "process"
  /\ pc = "chunking"
  /\ chunk_start >= TextLen(text)
  /\ returned' = [chunks |-> chunks, text |-> text, language |-> language, is_chunked |-> TRUE]
  /\ pc' = "done"
  /\ UNCHANGED <<loaded_models, instances, chunkVars>>
  /\ UNCHANGED outsideProcess

NextProcess ==
  \/ LoadModel
  \/ ProcessWhole
  \/ StartChunks
  \/ ProcessChunk
  \/ ReturnChunks

SpecProcess == InitProcess /\ [][NextProcess]_vars

(***************************************************************************)
(* app.py: the script of one browser session.  Every run of the script     *)
(* reads the widgets; a run with the button pressed and a text that is not *)
(* blank analyses the text, keeps the results in st.session_state and      *)
(* offers the two downloads                                                *)
(***************************************************************************)
\* extract_bullet_points as one function of the text: the four phases, the
\* prefixes and the cut
ExtractBulletPoints(t) ==
  LET paras == SplitParagraphs(t)
      phase1 == Phase1(paras, 1, <<>>)
      phase2 == IF Len(phase1) < Phase2Threshold THEN Phase2(paras, 1, phase1) ELSE phase1
      phase3 == Phase3(paras, 1, phase2)
      phase4 == Phase4(paras, 1, phase3)
  IN Capped(EnhanceAll(phase4))

\* classify_intent as one function of the text and of what the classifier
\* call did: the pair (intent, explanation)
ClassifyIntent(t, classifier_result) ==
  LET top == TopIntent(classifier_result)
      top_score == TopScore(classifier_result)
  IN <<top, Explanation(t, top, top_score, ConfidenceLevel(top_score))>>

\* the results the classifier call can give on a text
ClassifierResults(t, outcomes) ==
  LET counted == KeywordScores(t, SampleLen)
  IN UNION {{ClassifierResult(outcome, scores) :
               scores \in (IF outcome = "ok" /\ NoKeywordFound(counted)
                           THEN [1..Len(categories) -> SeedValues]
                           ELSE {counted})} : outcome \in outcomes}

\* an optional value: <<>> for None or a missing key, <<v>> for the value v
Some(v) == <<v>>

\* "\n".join([f"<bullet> {point}" for point in st.session_state.bullets])
KeyPointsColumn(points) ==
  Join([k \in 1..Len(points) |-> <<BULLET, " ">> \o points[k]], <<NL>>)

\* explanation.replace('•', '-')
formatted_explanation(explanation) ==
  [k \in 1..Len(explanation) |-> IF explanation[k] = BULLET THEN "-" ELSE explanation[k]]

\* export_utils.create_analysis_pdf: the report always has the document
\* information; a section is written for a summary that is neither None nor
\* empty, for a list of bullets that is not empty, and for an intent with an
\* explanation (the page layout and the 300-character preview are left out)
create_analysis_pdf(text_sample, lang, summary, bullet_points, intent_label, explanation) ==
  [offered |-> TRUE,
   language |-> lang,
   character_count |-> Len(text_sample),
   summary |-> IF summary # <<>> /\ summary[1] # <<>> THEN summary ELSE <<>>,
   key_points |-> IF Len(bullet_points) > 0 THEN Some(bullet_points) ELSE <<>>,
   intent |-> IF intent_label # <<>> /\ explanation # <<>> /\ explanation[1] # <<>>
              THEN Some(<<intent_label[1], formatted_explanation(explanation[1])>>)
              ELSE <<>>]

\* the 'Process Document' runs of one session
MaxRuns == 2

\* the texts pasted into the text area: two that get different summaries,
\* bullets and intents
AppTexts == {Phrases[3], Phrases[4]}

AppLanguages == {"English", "Hindi"}

\* get_summary(processed_doc, language) for each text of the session and each
\* outcome of the summarizer call; the texts are short, so that get_summary
\* makes one call (lines 104-119)
summary_of == [t \in AppTexts |-> [outcome \in Outcomes |-> DirectSummary(t, outcome)]]

\* extract_bullet_points(processed_doc, language) for each text of the session
bullets_of == [t \in AppTexts |-> ExtractBulletPoints(t)]

\* classify_intent(processed_doc, language) for each text of the session:
\* the pairs it returns when the classifier call answers and when it fails
intent_of ==
  [t \in AppTexts |->
     [answered \in BOOLEAN |->
        {ClassifyIntent(t, classifier_result) :
           classifier_result \in ClassifierResults(t, IF answered THEN {"ok"}
                                                      ELSE ClassifierOutcomes \ {"ok"})}]]

InitApp ==
  /\ op = "app"
  /\ pc = "start"
  /\ text = <<>>
  /\ language = NoValue
  /\ paragraphs = <<>>
  /\ bullets = <<>> /\ enhanced_bullets = <<>>
  /\ para_idx = 0 /\ summaries = <<>> /\ calls = <<>>
  /\ faults = 0
  /\ result = NoResult /\ intent = NoValue /\ score = NoScore /\ confidence_level = NoValue
  /\ loaded_models = EmptyCache /\ threads = <<>> /\ instances = <<>> /\ handed_out = {}
  /\ returned = NoValue
  /\ chunks = <<>> /\ chunk_start = 0
  /\ session_state = EmptySession /\ widgets = NoWidgets
  /\ export_data = NoExport /\ pdf_data = NoExport /\ runs = 0

\* what the script leaves alone
outsideApp == <<op, pc, text, language, paragraphs, bulletVars, summaryVars, intentVars, threads,
                handed_out, returned, chunkVars>>

\* lines 122-231: the button is pressed on a text that is not blank.  The
\* text is short, so process_document does not chunk it and get_summary
\* makes one summarizer call; either pipeline call may fail, which the
\* analyses turn into their fallback values.
ProcessDocument ==
  /\ op = "app"
  /\ runs < MaxRuns
  /\ \E t \in AppTexts, l \in AppLanguages, generate_summary \in BOOLEAN,
        generate_bullets \in BOOLEAN, classify_document \in BOOLEAN :
       /\ Len(Strip(t)) > 0 /\ ~TakesParagraphPath(t)
       /\ \E summarizer_outcome \in (IF generate_summary THEN AllowedOutcomes ELSE {"ok"}),
             answered \in (IF classify_document /\ faults < MaxFaults THEN BOOLEAN ELSE {TRUE}) :
          \E classified \in intent_of[t][answered] :
            /\ widgets' = [submitted |-> TRUE, text |-> t, language |-> l,
                           generate_summary |-> generate_summary,
                           generate_bullets |-> generate_bullets,
                           classify_document |-> classify_document]
            /\ IF loaded_models[l] # 0
                 THEN UNCHANGED <<loaded_models, instances>>
                 ELSE /\ instances' = Append(instances, l)
                      /\ loaded_models' = [loaded_models EXCEPT ![l] = Len(instances) + 1]
            \* lines 129-163
            /\ session_state' =
                 [k \in SessionKeys |->
                    CASE k = "processed" -> Some(TRUE)
                      [] k = "text" -> Some(t)
                      [] k = "language" -> Some(l)
                      [] k = "summary" ->
                           IF generate_summary THEN Some(summary_of[t][summarizer_outcome])
                           ELSE session_state[k]
                      [] k = "bullets" ->
                           IF generate_bullets THEN Some(bullets_of[t]) ELSE session_state[k]
                      [] k = "intent" ->
                           IF classify_document THEN Some(classified[1]) ELSE session_state[k]
                      [] k = "explanation" ->
                           IF classify_document THEN Some(classified[2]) ELSE session_state[k]]
            /\ faults' = faults + (IF generate_summary THEN Fault(summarizer_outcome) ELSE 0)
                                + (IF classify_document /\ ~answered THEN 1 ELSE 0)
            \* lines 169-182
            /\ export_data' =
                 [offered |-> TRUE,
                  language |-> l,
                  character_count |-> Len(t),
                  summary |-> IF generate_summary /\ session_state'["summary"] # Absent
                              THEN session_state'["summary"] ELSE <<>>,
                  key_points |-> IF generate_bullets /\ session_state'["bullets"] # Absent
                                 THEN Some(KeyPointsColumn(session_state'["bullets"][1]))
                                 ELSE <<>>,
                  intent |-> IF classify_document /\ session_state'["intent"] # Absent
                             THEN Some(<<session_state'["intent"][1],
                                         session_state'["explanation"][1]>>)
                             ELSE <<>>]
            \* lines 205-218
            /\ pdf_data' =
                 create_analysis_pdf(t, l, session_state'["summary"],
                                     IF session_state'["bullets"] # Absent
                                     THEN session_state'["bullets"][1] ELSE <<>>,
                                     session_state'["intent"], session_state'["explanation"])
  /\ runs' = runs + 1
  /\ UNCHANGED outsideApp

\* lines 233-234: a run of the script without the button pressed, or with a
\* blank text: the results column only shows a hint, no download is offered,
\* and st.session_state is left as it is
ShowHint ==
  /\ op = "app"
  /\ widgets.submitted
  /\ widgets' = NoWidgets
  /\ export_data' = NoExport
  /\ pdf_data' = NoExport
  /\ UNCHANGED <<session_state, runs, faults, loaded_models, instances>>
  /\ UNCHANGED outsideApp

NextApp ==
  \/ ProcessDocument
  \/ ShowHint

SpecApp == InitApp /\ [][NextApp]_vars

(***************************************************************************)
(* Properties of extract_bullet_points                                     *)
(***************************************************************************)
\* a returned bullet without its category prefix
StripPrefix(b) ==
  LET ps == {p \in CategoryPrefixes : MatchAt(b, p, 1)}
  IN IF ps = {} THEN b ELSE Drop(b, Len(CHOOSE p \in ps : TRUE))

\* the sentences of a text, paragraph by paragraph
SentencesOf(t) ==
  LET paras == SplitParagraphs(t)
  IN UNION {{SplitSentences(paras[p])[k] : k \in 1..Len(SplitSentences(paras[p]))} :
              p \in 1..Len(paras)}

\* the positions of t at which w occurs
Occurrences(t, w) == {i \in 1..(Len(t) - Len(w) + 1) : MatchAt(t, w, i)}

\* C1: extract_bullet_points returns at most 20 bullets, also when the four
\* phases accumulate more than 20 distinct sentences.
C1_AtMostTwentyBullets ==
  (op = "bullets" /\ pc = "done") => Len(returned) <= 20

\* C1 witness: a run that accumulated more than 20 bullets and returned 20.
C1_Witness ==
  /\ op = "bullets" /\ pc = "done"
  /\ Len(bullets) > 20
  /\ Len(returned) = 20

\* C2: no two returned bullets have the same text once the category prefix is
\* removed, and the accumulator never holds a string twice.
C2_NoDuplicateBullets ==
  op = "bullets" =>
    /\ \A i, j \in 1..Len(bullets) : i # j => bullets[i] # bullets[j]
    /\ pc = "done" =>
         \A i, j \in 1..Len(returned) :
           i # j => StripPrefix(returned[i]) # StripPrefix(returned[j])

\* C2 witness: a returned bullet whose sentence stands twice in the document
\* and is accepted by two phases (topic sentence and question).
C2_Witness ==
  /\ op = "bullets" /\ pc = "done"
  /\ \E k \in 1..Len(returned) :
       LET s == StripPrefix(returned[k])
       IN /\ Cardinality(Occurrences(text, s)) >= 2
          /\ s \in SentencesOf(text)
          /\ Len(s) > TopicSentenceLen
          /\ Phase4Accepts(s)

\* C3: the text of every returned bullet, category prefix removed, is a
\* contiguous substring of the document.
C3_BulletsAreSubstrings ==
  (op = "bullets" /\ pc = "done") =>
    \A k \in 1..Len(returned) : Contains(text, StripPrefix(returned[k]))

\* C3 witness: a returned phase-1 bullet that was stored after the clean-up
\* removed a marker or trimmed whitespace.
C3_Witness ==
  /\ op = "bullets" /\ pc = "done"
  /\ \E k \in 1..Len(returned) : \E s \in SentencesOf(text) :
       /\ Phase1Accepts(s)
       /\ CleanSentence(s) # s
       /\ StripPrefix(returned[k]) = CleanSentence(s)

(***************************************************************************)
(* Properties of get_summary                                               *)
(***************************************************************************)
\* the paragraphs of more than 200 characters once trimmed, in order
LongOnes(paras) ==
  LET idx == SortedSeq({k \in 1..Len(paras) : Len(Strip(paras[k])) > 200})
  IN [k \in 1..Len(idx) |-> paras[idx[k]]]

QualifyingParagraphs(t) == LongOnes(SplitParagraphs(t))

ThreeDots == <<".", ".", ".">>

\* C6: a call to the summarizer that raises is replaced by its fallback (the
\* first three sentences joined by a space + '...', the paragraph's first 100
\* characters + '...', the unsummarized concatenation); get_summary goes on
\* and returns a string, whatever calls fail.
C6_FailuresAreReplaced ==
  op = "summary" =>
    /\ pc = "done" => returned # Raised /\ returned # NoValue
    /\ \A k \in 1..Len(calls) :
         calls[k].outcome = "raise" =>
           /\ calls[k].kind = "text" =>
                returned = Join(Take(SplitSentences(text), 3), <<" ">>) \o ThreeDots
           /\ calls[k].kind = "paragraph" =>
                summaries[k] = Take(calls[k].input, 100) \o ThreeDots
           /\ calls[k].kind = "combined" =>
                returned = Join(summaries, <<" ">>)

\* C6 witness: the combination call raised and the concatenation of the
\* paragraph summaries was returned.
C6_Witness ==
  /\ op = "summary" /\ pc = "done"
  /\ Len(calls) > 0
  /\ calls[Len(calls)].kind = "combined"
  /\ calls[Len(calls)].outcome = "raise"
  /\ returned = Join(summaries, <<" ">>)

\* C6 witness of the paragraph path: one paragraph call among several raised,
\* and its place in the result is taken by the paragraph's first 100
\* characters + '...'.
C6_WitnessParagraph ==
  /\ op = "summary" /\ pc = "done"
  /\ Len(summaries) >= 2
  /\ \E k \in 1..Len(summaries) :
       /\ calls[k].kind = "paragraph" /\ calls[k].outcome = "raise"
       /\ Len(calls[k].input) > 100
       /\ summaries[k] = Take(calls[k].input, 100) \o ThreeDots

\* C6 witness of the one-call path: the call on the whole text raised.
C6_WitnessDirect ==
  /\ op = "summary" /\ pc = "done"
  /\ Len(calls) = 1 /\ calls[1].kind = "text" /\ calls[1].outcome = "raise"
  /\ Len(SplitSentences(text)) > 3

\* C8: a text of at most 1000 characters is summarized by exactly one call, on
\* the whole text with the budget [min_length, max_length]; it is never split
\* and none of its paragraphs is summarized.  The paragraph path is entered
\* only for more than 1000 characters.
C8_ShortTextSinglePass ==
  op = "summary" =>
    /\ Len(text) <= 1000 =>
         /\ paragraphs = <<>> /\ para_idx = 0 /\ summaries = <<>>
         /\ pc \in {"start", "done"}
         /\ pc = "start" => calls = <<>>
         /\ pc = "done" =>
              /\ Len(calls) = 1
              /\ calls[1].kind = "text"
              /\ calls[1].input = text
              /\ calls[1].max_length = Min(150, Len(text) \div 4)
              /\ calls[1].min_length = Min(30, Min(150, Len(text) \div 4) \div 2)
    /\ (\/ pc = "paragraphs"
        \/ paragraphs # <<>>
        \/ \E k \in 1..Len(calls) : calls[k].kind # "text") => Len(text) > 1000

\* C8 witness: a text of exactly 1000 characters, holding paragraphs of more
\* than 200, summarized in one call.
C8_Witness ==
  /\ op = "summary" /\ pc = "done"
  /\ Len(text) = 1000
  /\ Len(QualifyingParagraphs(text)) >= 2
  /\ Len(calls) = 1

\* C9: for a text of more than 1000 characters with exactly one paragraph of
\* more than 200 trimmed characters, get_summary returns that paragraph's
\* summary under the halved budget, or the paragraph's first 100 characters +
\* '...' when the call fails, after no other call.
C9_SingleParagraphSummary ==
  (op = "summary" /\ pc = "done" /\ Len(text) > 1000 /\ Len(LongOnes(paragraphs)) = 1) =>
    LET para == LongOnes(paragraphs)[1]
        maxl == Min(150, Len(text) \div 4)
        minl == Min(30, maxl \div 2)
    IN /\ Len(calls) = 1
       /\ calls[1].kind = "paragraph"
       /\ calls[1].input = para
       /\ calls[1].max_length = maxl \div 2
       /\ calls[1].min_length = minl \div 2
       /\ calls[1].outcome = "ok" => returned = GenerateSummary(para, maxl \div 2, minl \div 2)
       /\ calls[1].outcome # "ok" => returned = Take(para, 100) \o ThreeDots

\* C9 witness: such a text (one long paragraph among paragraphs of exactly 200
\* characters), returned from a call that succeeded.
C9_Witness ==
  /\ op = "summary" /\ pc = "done"
  /\ Len(text) > 1000
  /\ Len(paragraphs) > 1
  /\ Len(LongOnes(paragraphs)) = 1
  /\ calls[1].outcome = "ok"
  /\ returned = summaries[1]

\* C10: for a text of more than 1000 characters with two qualifying paragraphs
\* or more, the paragraph summaries are joined by single spaces in paragraph
\* order; the concatenation is summarized again exactly when it is longer than
\* 1000 characters, once, with the budget [min_length, max_length] of the text,
\* and what that pass gives is returned (the concatenation itself when the pass
\* raises).
C10_CombinationPass ==
  (op = "summary" /\ Len(text) > 1000) =>
    LET combined == Join(summaries, <<" ">>)
        combining == {k \in 1..Len(calls) : calls[k].kind = "combined"}
        long == LongOnes(paragraphs)
        maxl == Min(150, Len(text) \div 4)
        minl == Min(30, maxl \div 2)
    IN /\ Cardinality(combining) <= 1
       /\ \A k \in combining : k = Len(calls) /\ pc = "done"
       /\ (pc = "paragraphs" /\ para_idx = 1) => paragraphs = SplitParagraphs(text)
       /\ (pc = "done" /\ Len(long) >= 2) =>
            /\ Len(summaries) = Len(long)
            /\ \A k \in 1..Len(summaries) :
                 /\ calls[k].kind = "paragraph"
                 /\ calls[k].input = long[k]
            /\ Len(combined) <= 1000 => (combining = {} /\ returned = combined)
            /\ Len(combined) > 1000 =>
                 /\ combining = {Len(calls)}
                 /\ LET c == calls[Len(calls)]
                    IN /\ c.input = combined
                       /\ c.max_length = maxl
                       /\ c.min_length = minl
                       /\ c.outcome = "ok" => returned = GenerateSummary(combined, maxl, minl)
                       /\ c.outcome = "raise" => returned = combined

\* C10 witness: a concatenation of 1001 characters that was summarized again.
C10_Witness ==
  /\ op = "summary" /\ pc = "done"
  /\ Len(Join(summaries, <<" ">>)) = 1001
  /\ calls[Len(calls)].kind = "combined"
  /\ calls[Len(calls)].outcome = "ok"

\* C10 witness of the other side: a concatenation of exactly 1000 characters,
\* returned as it is.
C10_WitnessNotCombined ==
  /\ op = "summary" /\ pc = "done"
  /\ Len(summaries) >= 2
  /\ Len(Join(summaries, <<" ">>)) = 1000
  /\ returned = Join(summaries, <<" ">>)

\* C11: when no call to the summarizer fails, the string get_summary returns
\* is at most min(150, len(text) // 4) characters long plus the three of the
\* ellipsis, on every path.
C11_SummaryWithinBudget ==
  (/\ op = "summary" /\ pc = "done"
   /\ \A k \in 1..Len(calls) : calls[k].outcome = "ok") =>
    Len(returned) <= Min(150, Len(text) \div 4) + 3

\* C11 on the paths other than the concatenation of several paragraph
\* summaries: one call on the whole text, one paragraph summary, a second
\* pass over the concatenation, or no qualifying paragraph.
C11_BudgetOffConcatenation ==
  (/\ op = "summary" /\ pc = "done"
   /\ \A k \in 1..Len(calls) : calls[k].outcome = "ok"
   /\ (Len(summaries) < 2 \/ calls[Len(calls)].kind = "combined")) =>
    Len(returned) <= Min(150, Len(text) \div 4) + 3

(***************************************************************************)
(* Properties of classify_intent                                           *)
(***************************************************************************)
\* the four fixed labels
FixedLabels == {"Complaint", "Request", "Update/Notification", "Appreciation"}

\* C4: whatever the text, and whether the classifier call returns labels and
\* scores, raises, or returns a result without them, classify_intent has a
\* label among the four fixed ones and a score s with 0 <= s <= 1, and it
\* returns that label.
C4_LabelAndScoreInRange ==
  (op = "intent" /\ pc # "start") =>
    /\ intent \in FixedLabels
    /\ score.den > 0
    /\ 0 <= score.num /\ score.num <= score.den
    /\ pc = "done" => returned[1] = intent

\* C4 witness: a text without any classifier keyword, classified from seeds.
C4_Witness ==
  /\ op = "intent" /\ pc = "done"
  /\ "labels" \in DOMAIN result /\ Len(result.labels) = 4
  /\ \A c \in FixedLabels, k \in 1..8 : ~InLoweredPrefix(text, 1000, keyword_categories[c][k])
  /\ Len(text) > 0
  /\ returned[1] = "Appreciation"

\* C4 witness of a failed call.
C4_WitnessRaise ==
  /\ op = "intent" /\ pc = "done"
  /\ "exception" \in DOMAIN result
  /\ returned[1] \in FixedLabels

\* C4 witness of a result without labels and scores, and of one with empty lists.
C4_WitnessMalformed ==
  /\ op = "intent" /\ pc = "done"
  /\ \/ "error" \in DOMAIN result
     \/ "labels" \in DOMAIN result /\ result.labels = <<>>
  /\ returned[1] \in FixedLabels

\* C5: the confidence level is determined by the score alone: high exactly for
\* score > 0.8, medium exactly for 0.6 < score <= 0.8, low exactly for
\* score <= 0.6; 0.85 is high, 0.8 and 0.65 are medium, 0.6 and 0.3 are low.
C5_ConfidenceBuckets ==
  confidence_level # NoValue =>
    /\ confidence_level \in {"high", "medium", "low"}
    /\ confidence_level = "high" <=> 10 * score.num > 8 * score.den
    /\ confidence_level = "medium" <=>
         (10 * score.num > 6 * score.den /\ 10 * score.num <= 8 * score.den)
    /\ confidence_level = "low" <=> 10 * score.num <= 6 * score.den
    /\ 100 * score.num = 85 * score.den => confidence_level = "high"
    /\ 100 * score.num = 80 * score.den => confidence_level = "medium"
    /\ 100 * score.num = 65 * score.den => confidence_level = "medium"
    /\ 100 * score.num = 60 * score.den => confidence_level = "low"
    /\ 100 * score.num = 30 * score.den => confidence_level = "low"

\* C5 witness: a score of exactly 0.8, bucketed as medium.
C5_Witness ==
  /\ op = "confidence" /\ pc = "bucketed"
  /\ 5 * score.num = 4 * score.den
  /\ confidence_level = "medium"

\* C5 witnesses: exactly 0.6 is low, 0.85 is high.
C5_WitnessLow ==
  /\ op = "confidence" /\ pc = "bucketed"
  /\ 5 * score.num = 3 * score.den
  /\ confidence_level = "low"

C5_WitnessHigh ==
  /\ op = "confidence" /\ pc = "bucketed"
  /\ 20 * score.num = 17 * score.den
  /\ confidence_level = "high"

\* whether a keyword of the Complaint explanation occurs in text[:2000].lower()
ComplaintKeywordOccurs ==
  \E w \in {<<"i","s","s","u","e">>, <<"p","r","o","b","l","e","m">>,
            <<"c","o","n","c","e","r","n","e","d">>,
            <<"d","i","s","s","a","t","i","s","f","i","e","d">>,
            <<"d","i","s","a","p","p","o","i","n","t","e","d">>,
            <<"f","i","x">>, <<"r","e","s","o","l","v","e">>,
            <<"f","a","i","l","i","n","g">>} :
    Occurrences(Lower(Take(text, 2000)), w) # {}

\* C7: when the classifier call raises, the label is Complaint, the score 0.5
\* and the confidence level low, and the explanation returned is complete: the
\* description of a complaint with the confidence phrase and the score 0.50,
\* the 'Detailed analysis:' header, five rationale bullets, the keyword line
\* exactly when a Complaint keyword occurs in the text, and the rationale of
\* the low confidence.
C7_FailureDefaults ==
  (op = "intent" /\ "exception" \in DOMAIN result) =>
    /\ intent = "Complaint"
    /\ score.num = 1 /\ score.den = 2
    /\ pc \in {"bucketed", "done"} => confidence_level = "low"
    /\ pc = "done" =>
         LET e == returned[2]
         IN /\ returned[1] = "Complaint"
            /\ Len(e) >= 33
            /\ SubSeq(e, 1, 8) =
                 <<"The document contains expressions of dissatisfaction or descriptions of problems that need to be addressed.",
                   " The document has been classified ", "with low confidence",
                   " (", "0", ".", "5", "0">>
            /\ SubSeq(e, 9, 11) = <<").", NL, "Detailed analysis:">>
            /\ \A k \in 0..4 :
                 /\ SubSeq(e, 12 + 4 * k, 14 + 4 * k) = <<NL, BULLET, " ">>
                 /\ e[15 + 4 * k] = explanations["Complaint"].details[k + 1]
            /\ SubSeq(e, Len(e) - 1, Len(e)) =
                 <<NL, "The low confidence level suggests the intent classification is tentative, as the text may contain mixed signals or limited clear indicators.">>
            /\ ComplaintKeywordOccurs <=>
                 (Len(e) > 33 /\ SubSeq(e, 32, 33) = <<NL, "Keywords detected: ">>)
            /\ ~ComplaintKeywordOccurs => Len(e) = 33

\* C7 witness: the call raised on a text with the Complaint keywords 'issue'
\* and 'fix', which the explanation lists.
C7_Witness ==
  /\ op = "intent" /\ pc = "done"
  /\ "exception" \in DOMAIN result
  /\ ComplaintKeywordOccurs
  /\ Len(returned[2]) > 33

\* C7 witness: the call raised on a text of Request keywords only.
C7_WitnessNoKeyword ==
  /\ op = "intent" /\ pc = "done"
  /\ "exception" \in DOMAIN result
  /\ ~ComplaintKeywordOccurs
  /\ InLoweredPrefix(text, 1000, <<"p","l","e","a","s","e">>)
  /\ Len(returned[2]) = 33

\* the position of a label in the declaration order of the categories
DeclarationIndex(label) ==
  CHOOSE k \in 1..4 :
    <<"Complaint", "Request", "Update/Notification", "Appreciation">>[k] = label

\* the number of the label's classifier keywords that occur in text[:1000].lower()
CountOf(label) ==
  Cardinality({k \in 1..8 : InLoweredPrefix(text, 1000, keyword_categories[label][k])})

\* the classifier call returned its dictionary of four labels and scores
ClassifierAnswered ==
  /\ op = "intent" /\ pc # "start"
  /\ "labels" \in DOMAIN result /\ Len(result.labels) = 4

\* C12 as stated: the labels are ranked by keyword count in descending order,
\* labels of equal count in declaration order, and the label returned is the
\* first of the ranking.
C12_RankedByKeywordCount ==
  ClassifierAnswered =>
    /\ {result.labels[r] : r \in 1..4} = FixedLabels
    /\ \A r \in 1..3 :
         LET a == result.labels[r]
             b == result.labels[r + 1]
         IN \/ CountOf(a) > CountOf(b)
            \/ CountOf(a) = CountOf(b) /\ DeclarationIndex(a) < DeclarationIndex(b)
    /\ intent = result.labels[1]

\* C12, amended: the labels are ranked by score in descending order, labels of
\* equal score in declaration order; the score of a label is its keyword count
\* when a keyword of some category occurs in the sample, and a seed drawn for
\* it otherwise; the label returned is the first of the ranking.  (The ranking
\* is looked at where the classifier has just answered; the later steps leave
\* `result` alone.)
C12_RankedByScore ==
  ClassifierAnswered =>
    /\ intent = result.labels[1]
    /\ pc = "done" => returned[1] = result.labels[1]
    /\ pc = "classified" =>
         LET Position(label) == CHOOSE r \in 1..4 : result.labels[r] = label
             ScoreOf(label) == result.scores[Position(label)].num
         IN /\ {result.labels[r] : r \in 1..4} = FixedLabels
            /\ \A r \in 1..3 :
                 LET a == result.labels[r]
                     b == result.labels[r + 1]
                 IN \/ ScoreOf(a) > ScoreOf(b)
                    \/ ScoreOf(a) = ScoreOf(b) /\ DeclarationIndex(a) < DeclarationIndex(b)
            /\ (\E c \in FixedLabels : CountOf(c) > 0) =>
                 \A r \in 1..3 :
                   LET a == result.labels[r]
                       b == result.labels[r + 1]
                   IN \/ CountOf(a) > CountOf(b)
                      \/ CountOf(a) = CountOf(b) /\ DeclarationIndex(a) < DeclarationIndex(b)

\* C12 witness: Request and Appreciation both have the highest count, the
\* Appreciation keyword comes first in the text, and the label is Request.
C12_Witness ==
  /\ ClassifierAnswered /\ pc = "done"
  /\ CountOf("Request") = CountOf("Appreciation")
  /\ CountOf("Request") > CountOf("Complaint")
  /\ CountOf("Request") > CountOf("Update/Notification")
  /\ MatchAt(text, <<"M","a","n","y">>, 1)
  /\ returned[1] = "Request"

\* C12 witness of the seeded ranking: no keyword in the text, and the label
\* returned is not the first of the declaration order.
C12_WitnessSeeded ==
  /\ ClassifierAnswered /\ pc = "done"
  /\ \A c \in FixedLabels : CountOf(c) = 0
  /\ returned[1] = "Update/Notification"

\* a keyword count in tenths, 0.1 standing for a count of zero
WeightOf(label) == IF CountOf(label) = 0 THEN 1 ELSE 10 * CountOf(label)

\* the sum of the numerators of the four normalized scores
NumeratorSum ==
  result.scores[1].num + result.scores[2].num + result.scores[3].num + result.scores[4].num

\* C13 as stated: the normalized score of each category is its keyword count
\* over the sum of the four counts, 0.1 standing for a zero count in both; the
\* four scores sum to 1; the score of the result is that of the top label.
C13_NormalizedByKeywordCount ==
  (ClassifierAnswered /\ pc = "classified") =>
    LET total == WeightOf("Complaint") + WeightOf("Request")
                   + WeightOf("Update/Notification") + WeightOf("Appreciation")
    IN /\ \A r \in 1..4 :
            result.scores[r].num * total = WeightOf(result.labels[r]) * result.scores[r].den
       /\ \A r \in 1..4 : result.scores[r].den = NumeratorSum
       /\ score = result.scores[1]

\* C13, amended: when a keyword of some category occurs in the sample, the
\* normalized score of each category is its keyword count over the sum of the
\* four counts, 0.1 standing for a zero count in both; when none occurs, it is
\* the category's seed (1 to 9) over the sum of the four seeds; in both cases
\* the four scores sum to 1 and the score of the result is that of the
\* top-ranked label.
C13_NormalizedScores ==
  ClassifierAnswered =>
    /\ score = result.scores[1]
    /\ pc = "classified" =>
         /\ \A r \in 1..4 : result.scores[r].den = NumeratorSum
         /\ NumeratorSum > 0
         /\ IF \E c \in FixedLabels : CountOf(c) > 0
            THEN \A r \in 1..4 : result.scores[r].num = WeightOf(result.labels[r])
            ELSE \A r \in 1..4 : result.scores[r].num \in {10 * seed : seed \in 1..9}

\* C13 witness: one Request keyword and no other, so the returned score is
\* 1 / (1 + 0.1 + 0.1 + 0.1).
C13_Witness ==
  /\ ClassifierAnswered /\ pc = "done"
  /\ CountOf("Request") = 1
  /\ \A c \in FixedLabels \ {"Request"} : CountOf(c) = 0
  /\ score.num = 10 /\ score.den = 13

\* C13 witness of the seeded scores: no keyword, seeds that are not all equal.
C13_WitnessSeeded ==
  /\ ClassifierAnswered /\ pc = "done"
  /\ \A c \in FixedLabels : CountOf(c) = 0
  /\ score.num = 90 /\ score.den = 120

\* C14: for the request letter "Please provide the requested documents by
\* Friday. Kindly respond at your earliest convenience.", classified by a
\* classifier call that answers, the label is Request, the score is above 0.6
\* (confidence medium or high), and the explanation contains
\* "Keywords detected: please".
C14_RequestExample ==
  (ClassifierAnswered /\ text = RequestExample) =>
    /\ intent = "Request"
    /\ 10 * score.num > 6 * score.den
    /\ pc \in {"bucketed", "done"} => confidence_level \in {"medium", "high"}
    /\ pc = "done" =>
         /\ returned[1] = "Request"
         /\ \E i \in 1..Len(returned[2]) :
              /\ returned[2][i] = "Keywords detected: "
              /\ i + 6 <= Len(returned[2])
              /\ SubSeq(returned[2], i + 1, i + 6) = <<"p", "l", "e", "a", "s", "e">>

\* C14 witness: the request letter was classified and explained; its score is
\* 3 / 3.3 and its confidence high.
C14_Witness ==
  /\ ClassifierAnswered /\ pc = "done"
  /\ text = RequestExample
  /\ score.num = 30 /\ score.den = 33
  /\ confidence_level = "high"
  /\ returned[1] = "Request"

(***************************************************************************)
(* Properties of the model cache                                           *)
(***************************************************************************)
\* the instances created for a language tag
InstancesFor(l) == {k \in 1..Len(instances) : instances[k] = l}

\* C15: over any interleaving of load_model_for_language calls, at most one
\* model instance is ever created for a language tag, and every call for the
\* tag returns that same instance.
C15_OneInstancePerTag ==
  op = "load" =>
    \A l \in Languages :
      /\ Cardinality(InstancesFor(l)) <= 1
      /\ \A p, q \in handed_out : (p[1] = l /\ q[1] = l) => p[2] = q[2]

\* C15, the entries: an entry once stored in the cache is never replaced or
\* removed.
C15_EntriesNeverReplaced ==
  [][\A l \in Languages : loaded_models[l] # 0 => loaded_models'[l] = loaded_models[l]]_vars

\* C15, the keys: the entry stored under a tag is an instance made for that
\* tag, and what a call returns is an instance made for the tag it asked for.
C15_KeyedByTag ==
  op = "load" =>
    /\ \A l \in Languages : loaded_models[l] # 0 => loaded_models[l] \in InstancesFor(l)
    /\ \A p \in handed_out : p[2] \in InstancesFor(p[1])

RECURSIVE ChunkTextsFrom(_, _)
ChunkTextsFrom(cs, k) ==
  IF k > Len(cs) THEN <<>> ELSE Concat(cs[k].text, ChunkTextsFrom(cs, k + 1))

\* the number of characters in the chunks before the k-th
RECURSIVE LengthBefore(_, _)
LengthBefore(cs, k) == IF k <= 1 THEN 0 ELSE LengthBefore(cs, k - 1) + TextLen(cs[k - 1].text)

\* C16: process_document chunks a text only when it has more than 100,000
\* characters; the chunks are consecutive, non-overlapping slices in document
\* order, each of exactly 100,000 characters but the last, which has between 1
\* and 100,000; their concatenation is the text; and the 'text' field of the
\* result is the full text whether or not the text was chunked.
C16_ChunksPartitionText ==
  pc = "done" /\ op = "process" =>
    /\ returned.text = text
    /\ ("is_chunked" \in DOMAIN returned) <=> (TextLen(text) > max_chunk_size)
    /\ ("doc" \in DOMAIN returned) <=> (TextLen(text) <= max_chunk_size)
    /\ "doc" \in DOMAIN returned => returned.doc.text = text
    /\ "is_chunked" \in DOMAIN returned =>
         LET cs == returned.chunks
         IN /\ returned.is_chunked
            /\ Len(cs) >= 2
            /\ \A k \in 1..(Len(cs) - 1) : TextLen(cs[k].text) = max_chunk_size
            /\ TextLen(cs[Len(cs)].text) \in 1..max_chunk_size
            /\ \A k \in 1..Len(cs) :
                 cs[k].text = Slice(text, LengthBefore(cs, k),
                                    LengthBefore(cs, k) + TextLen(cs[k].text))
            /\ ChunkTextsFrom(cs, 1) = text

\* a text of 200,001 characters came back as two full chunks and one of a
\* single character
C16_Witness ==
  /\ op = "process" /\ pc = "done"
  /\ TextLen(text) = 2 * max_chunk_size + 1
  /\ "is_chunked" \in DOMAIN returned
  /\ Len(returned.chunks) = 3
  /\ TextLen(returned.chunks[3].text) = 1

\* a text of exactly 100,000 characters came back unchunked
C16_WitnessAtThreshold ==
  /\ op = "process" /\ pc = "done"
  /\ TextLen(text) = max_chunk_size
  /\ "doc" \in DOMAIN returned

(***************************************************************************)
(* Properties of the bullet categories and of the order of the bullets     *)
(***************************************************************************)
\* the bullet at index i (from 0) of n starts within the first fifth of the list
InFirstFifth(i, n) == 5 * i < n

\* the mirror image: the bullet at index i (from 0) of n ends within the last
\* fifth of the list, so that the last fifth holds as many bullets as the first
InLastFifth(i, n) == 5 * (i + 1) > 4 * n

\* the ordered rule set, rule r on the bullet b at index i of n
RuleMatches(r, b, i, n) ==
  CASE r = 1 -> ContainsAny(Lower(b), conclusion_words)
    [] r = 2 -> ContainsAny(Lower(b), example_words)
    [] r = 3 -> ContainsAny(Lower(b), importance_words)
    [] r = 4 -> PercentPattern(b)
    [] r = 5 -> Contains(b, <<"?">>)
    [] r = 6 -> InFirstFifth(i, n)
    [] r = 7 -> InLastFifth(i, n)
    [] OTHER -> TRUE

RulePrefixes ==
  <<PrefixConclusion, PrefixExample, PrefixKeyPoint, PrefixStatistic, PrefixQuestion,
    PrefixIntroduction, PrefixSummary, PrefixPoint>>

\* the first rule, from rule r on, that matches
RECURSIVE FirstMatchFrom(_, _, _, _)
FirstMatchFrom(r, b, i, n) ==
  IF r >= Len(RulePrefixes) \/ RuleMatches(r, b, i, n) THEN r ELSE FirstMatchFrom(r + 1, b, i, n)

FirstMatch(b, i, n) == FirstMatchFrom(1, b, i, n)

\* C18: every accumulated bullet gets the category of the first rule that
\* matches, in the order conclusion cue, example cue, importance cue,
\* percentage, question mark, first 20% of the accumulated list (Introduction),
\* last 20% of the accumulated list (Summary), else Point; the position is the
\* one in the list before it is cut to 20, and the bullet is rendered with
\* that one category.
C18_CategoryByFirstMatch ==
  op = "bullets" /\ pc = "done" =>
    /\ Len(enhanced_bullets) = Len(bullets)
    /\ \A k \in 1..Len(bullets) :
         enhanced_bullets[k] = RulePrefixes[FirstMatch(bullets[k], k - 1, Len(bullets))] \o bullets[k]
    /\ \A k \in 1..Len(returned) : returned[k] = enhanced_bullets[k]

\* what does hold: the category is the claimed one unless the claimed one is
\* Summary, and a bullet of the last 20% is then a Summary or a Point
C18_AllButSummary ==
  op = "bullets" /\ pc = "done" =>
    /\ Len(enhanced_bullets) = Len(bullets)
    /\ \A k \in 1..Len(bullets) :
         LET r == FirstMatch(bullets[k], k - 1, Len(bullets))
         IN IF r = 7
              THEN enhanced_bullets[k] \in {PrefixSummary \o bullets[k], PrefixPoint \o bullets[k]}
              ELSE enhanced_bullets[k] = RulePrefixes[r] \o bullets[k]
    /\ \A k \in 1..Len(returned) : returned[k] = enhanced_bullets[k]

\* a list of more than 20 accumulated bullets whose 21st and later bullets
\* decide which of the first 20 count as the first 20%
C18_WitnessPreTruncation ==
  /\ op = "bullets" /\ pc = "done"
  /\ Len(bullets) > MaxBullets
  /\ \E k \in 1..Len(returned) :
       /\ MatchAt(returned[k], PrefixIntroduction, 1)
       /\ ~InFirstFifth(k - 1, Len(returned))

\* the sentences of the paragraphs from the p-th on, in document order, each
\* with its place in its paragraph and whether phases 1 and 2 read the paragraph
RECURSIVE SentenceEntriesFrom(_, _)
SentenceEntriesFrom(paras, p) ==
  IF p > Len(paras) THEN <<>>
  ELSE LET sentences == SplitSentences(paras[p])
           long == Len(Strip(paras[p])) >= MinParagraphLen
       IN [k \in 1..Len(sentences) |-> [pos |-> k, sentence |-> sentences[k], long |-> long]]
            \o SentenceEntriesFrom(paras, p + 1)

\* what each phase accepts of one entry
AcceptedIn1(e) == e.long /\ Phase1Accepts(e.sentence) /\ CleanSentence(e.sentence) # <<>>

AcceptedIn2(e) ==
  /\ e.long
  /\ IF e.pos = 1 THEN Len(e.sentence) > TopicSentenceLen
     ELSE /\ Len(Strip(e.sentence)) >= MinSentenceLen
          /\ ContainsAny(Lower(e.sentence), topic_sentence_indicators)

AcceptedIn3(e) == Phase3Accepts(e.sentence)

AcceptedIn4(e) == Phase4Accepts(e.sentence)

\* a sequence without the later occurrences of its elements
RECURSIVE FirstOccurrencesFrom(_, _)
FirstOccurrencesFrom(s, k) ==
  IF k > Len(s) THEN <<>>
  ELSE (IF \E j \in 1..(k - 1) : s[j] = s[k] THEN <<>> ELSE <<s[k]>>)
         \o FirstOccurrencesFrom(s, k + 1)

FirstOccurrences(s) == FirstOccurrencesFrom(s, 1)

\* the acceptances of the four phases, phase by phase and in document order
\* within a phase; phase 1 keeps the cleaned sentence, and phase 2 runs only
\* if phase 1 left fewer than 15 bullets
AccumulationOrder(paras) ==
  LET entries == SentenceEntriesFrom(paras, 1)
      of(es) == [k \in 1..Len(es) |-> es[k].sentence]
      in1 == SelectSeq(entries, AcceptedIn1)
      first == FirstOccurrences([k \in 1..Len(in1) |-> CleanSentence(in1[k].sentence)])
      second == IF Len(first) < Phase2Threshold THEN of(SelectSeq(entries, AcceptedIn2)) ELSE <<>>
  IN FirstOccurrences(first \o second \o of(SelectSeq(entries, AcceptedIn3))
                        \o of(SelectSeq(entries, AcceptedIn4)))

C20_WitnessCut ==
  /\ op = "bullets" /\ pc = "done"
  /\ Len(bullets) > MaxBullets
  /\ Len(returned) = MaxBullets

(***************************************************************************)
(* Properties of the exports of app.py                                     *)
(***************************************************************************)
\* the summaries get_summary can return for each text of the session
SummariesOf == [t \in AppTexts |-> {DirectSummary(t, outcome) : outcome \in Outcomes}]

\* the bullets extract_bullet_points returns for each text of the session
BulletsOf == [t \in AppTexts |-> ExtractBulletPoints(t)]

\* the pairs (intent, explanation) classify_intent can return for each text
IntentsOf ==
  [t \in AppTexts |->
     {ClassifyIntent(t, classifier_result) :
        classifier_result \in ClassifierResults(t, ClassifierOutcomes)}]

\* C19: in any sequence of 'Process Document' runs of one session, with any
\* choice of the three analyses, the PDF report of a run has a summary, key
\* points or intent section only if that analysis was selected in that run,
\* and the content of the section was computed from the text of that run,
\* as it is for the CSV export.
C19_PdfOfThisRun ==
  op = "app" /\ pdf_data.offered =>
    /\ pdf_data.summary # <<>> =>
         widgets.generate_summary /\ pdf_data.summary[1] \in SummariesOf[widgets.text]
    /\ pdf_data.key_points # <<>> =>
         widgets.generate_bullets /\ pdf_data.key_points[1] = BulletsOf[widgets.text]
    /\ pdf_data.intent # <<>> =>
         /\ widgets.classify_document
         /\ \E pair \in IntentsOf[widgets.text] :
              pdf_data.intent[1] = <<pair[1], formatted_explanation(pair[2])>>

\* the same of the CSV export, which holds
C19_CsvOfThisRun ==
  op = "app" /\ export_data.offered =>
    /\ export_data.summary # <<>> =>
         widgets.generate_summary /\ export_data.summary[1] \in SummariesOf[widgets.text]
    /\ export_data.key_points # <<>> =>
         /\ widgets.generate_bullets
         /\ export_data.key_points[1] = KeyPointsColumn(BulletsOf[widgets.text])
    /\ export_data.intent # <<>> =>
         widgets.classify_document /\ export_data.intent[1] \in IntentsOf[widgets.text]

\* a second run on another text with no analysis selected, after a run with
\* all three: the CSV has the two document columns only
C19_WitnessCsv ==
  /\ op = "app" /\ runs = 2 /\ export_data.offered
  /\ ~widgets.generate_summary /\ ~widgets.generate_bullets /\ ~widgets.classify_document
  /\ session_state["summary"] # <<>> /\ session_state["bullets"] # <<>>
  /\ session_state["intent"] # <<>>
  /\ session_state["summary"][1] \notin SummariesOf[widgets.text]
  /\ export_data.summary = <<>> /\ export_data.key_points = <<>> /\ export_data.intent = <<>>

(***************************************************************************)
(* Properties of the phases of extract_bullet_points                       *)
(***************************************************************************)
\* every sentence of the document that satisfies Accepted is in acc
AllAcceptedIn(Accepted(_), acc) ==
  LET entries == SentenceEntriesFrom(paragraphs, 1)
  IN \A k \in 1..Len(entries) : Accepted(entries[k]) => InList(entries[k].sentence, acc)

\* some sentence of the document satisfies Accepted and is not in acc
SomeAcceptedOutside(Accepted(_), acc) ==
  LET entries == SentenceEntriesFrom(paragraphs, 1)
  IN \E k \in 1..Len(entries) : Accepted(entries[k]) /\ ~InList(entries[k].sentence, acc)

\* C21: the topic-sentence phase runs only if phase 1 left fewer than 15
\* bullets: with 15 or more, the step of phase 2 leaves the accumulator as
\* phase 1 left it; with fewer, every first sentence and topic-indicator
\* sentence phase 2 accepts is in the accumulator after the step.  Phases 3
\* and 4 run in every case: after their steps every sentence they accept is
\* in the accumulator, whatever its length was.
C21_Phase2OnlyBelowThreshold ==
  [][/\ (op = "bullets" /\ pc = "phase2" /\ Len(bullets) >= Phase2Threshold) => bullets' = bullets
     /\ (op = "bullets" /\ pc = "phase2" /\ Len(bullets) < Phase2Threshold) =>
          /\ Take(bullets', Len(bullets)) = bullets
          /\ AllAcceptedIn(AcceptedIn2, bullets')
     /\ (op = "bullets" /\ pc = "phase3") => AllAcceptedIn(AcceptedIn3, bullets')
     /\ (op = "bullets" /\ pc = "phase4") => AllAcceptedIn(AcceptedIn4, bullets')]_vars

\* phase 1 left 15 bullets or more, a first sentence and a topic-indicator
\* sentence that phase 2 accepts were not added, and phases 3 and 4 added an
\* amount and a question
C21_Witness ==
  /\ op = "bullets" /\ pc = "done"
  /\ Len(Phase1(paragraphs, 1, <<>>)) >= Phase2Threshold
  /\ LET entries == SentenceEntriesFrom(paragraphs, 1)
         first == Phase1(paragraphs, 1, <<>>)
         added(e) == InList(e.sentence, bullets) /\ ~InList(e.sentence, first)
     IN /\ \E k \in 1..Len(entries) :
             entries[k].pos = 1 /\ AcceptedIn2(entries[k]) /\ ~InList(entries[k].sentence, bullets)
        /\ \E k \in 1..Len(entries) :
             entries[k].pos > 1 /\ AcceptedIn2(entries[k]) /\ ~InList(entries[k].sentence, bullets)
        /\ \E k \in 1..Len(entries) : AcceptedIn3(entries[k]) /\ added(entries[k])
        /\ \E k \in 1..Len(entries) : AcceptedIn4(entries[k]) /\ added(entries[k])

\* phase 1 left fewer than 15 bullets and phase 2 added a sentence
C21_WitnessBelow ==
  /\ op = "bullets" /\ pc = "done"
  /\ LET first == Phase1(paragraphs, 1, <<>>)
     IN /\ Len(first) = Phase2Threshold - 1
        /\ SomeAcceptedOutside(AcceptedIn2, first)
        /\ AllAcceptedIn(AcceptedIn2, bullets)

\* C22: when phase 2 runs, the first sentence of every paragraph of at least
\* 20 trimmed characters is in the accumulator after phase 2 whenever it has
\* at least 15 characters, a first sentence of exactly 15 characters included.
C22_FirstSentenceFrom15 ==
  (op = "bullets" /\ pc = "phase3" /\ Len(Phase1(paragraphs, 1, <<>>)) < Phase2Threshold) =>
    LET entries == SentenceEntriesFrom(paragraphs, 1)
    IN \A k \in 1..Len(entries) :
         (entries[k].long /\ entries[k].pos = 1 /\ Len(entries[k].sentence) >= MinSentenceLen)
           => InList(entries[k].sentence, bullets)

\* what the code does: the first sentence is in the accumulator whenever it
\* has more than 15 characters
C22_FirstSentenceAbove15 ==
  (op = "bullets" /\ pc = "phase3" /\ Len(Phase1(paragraphs, 1, <<>>)) < Phase2Threshold) =>
    LET entries == SentenceEntriesFrom(paragraphs, 1)
    IN \A k \in 1..Len(entries) :
         (entries[k].long /\ entries[k].pos = 1 /\ Len(entries[k].sentence) > TopicSentenceLen)
           => InList(entries[k].sentence, bullets)

\* phase 2 ran on a paragraph whose first sentence has exactly 15 characters,
\* and left that sentence out
C22_WitnessExactly15 ==
  /\ op = "bullets" /\ pc = "phase3"
  /\ Len(Phase1(paragraphs, 1, <<>>)) < Phase2Threshold
  /\ LET entries == SentenceEntriesFrom(paragraphs, 1)
     IN \E k \in 1..Len(entries) :
          /\ entries[k].long /\ entries[k].pos = 1
          /\ Len(entries[k].sentence) = MinSentenceLen
          /\ ~InList(entries[k].sentence, bullets)

\* C23: every sentence accepted in phase 1 is stored without its leading
\* list or bullet marker: after phase 1 no bullet starts with digits followed
\* by '.' or ')', nor with one of the glyphs '•', '-' and '*'.
C23_MarkersStripped ==
  (op = "bullets" /\ pc = "phase2") =>
    \A k \in 1..Len(bullets) : ~NumberedStart(bullets[k]) /\ ~BulletStart(bullets[k])

\* phase 1 accepted a numbered item and stored it with its marker
C23_WitnessMarkerKept ==
  /\ op = "bullets" /\ pc = "phase2"
  /\ LET entries == SentenceEntriesFrom(paragraphs, 1)
     IN \E k \in 1..Len(entries) :
          /\ AcceptedIn1(entries[k])
          /\ NumberedStart(entries[k].sentence)
          /\ InList(Strip(entries[k].sentence), bullets)

(***************************************************************************)
(* Properties of the explanation and of the seed scores                    *)
(***************************************************************************)
\* the places in the keyword list of label i of the terms that occur in the
\* lower-cased first 2000 characters of the text
MatchedTerms(i) ==
  {k \in 1..Len(intent_keywords[i]) : InLoweredPrefix(text, KeywordSampleLen, intent_keywords[i][k])}

\* the first terms matched, at most 5, in the order of the list, joined by ", "
ListedTerms(i) ==
  LET places == Take(SortedSeq(MatchedTerms(i)), MaxKeywords)
  IN Join([k \in 1..Len(places) |-> intent_keywords[i][places[k]]], <<",", " ">>)

\* C24: the explanation contains a "Keywords detected:" line exactly when a
\* term of the returned label's keyword list occurs in the lower-cased first
\* 2000 characters of the text; the line stands on a line of its own before
\* the closing confidence sentence and lists the first matched terms, at most
\* 5, in the order of the list.
C24_KeywordsLine ==
  (op = "intent" /\ pc = "done") =>
    LET explanation == returned[2]
        lines == {p \in 1..Len(explanation) : explanation[p] = "Keywords detected: "}
    IN IF MatchedTerms(returned[1]) = {} THEN lines = {}
       ELSE /\ Cardinality(lines) = 1
            /\ \A p \in lines :
                 /\ p > 1 /\ explanation[p - 1] = NL
                 /\ SubSeq(explanation, p + 1, Len(explanation) - 2) = ListedTerms(returned[1])
                 /\ explanation[Len(explanation) - 1] = NL

\* more than 5 terms of the label's list are matched and the line lists 5
C24_Witness ==
  /\ op = "intent" /\ pc = "done"
  /\ Cardinality(MatchedTerms(returned[1])) > MaxKeywords
  /\ \E p \in 1..Len(returned[2]) :
       /\ returned[2][p] = "Keywords detected: "
       /\ SubSeq(returned[2], p + 1, Len(returned[2]) - 2) = ListedTerms(returned[1])

\* no term of the returned label's list is matched and the line is absent
C24_WitnessAbsent ==
  /\ op = "intent" /\ pc = "done"
  /\ MatchedTerms(returned[1]) = {}
  /\ \A p \in 1..Len(returned[2]) : returned[2][p] # "Keywords detected: "

\* a listed term stands behind the first 1000 characters, which the
\* classifier read, and within the first 2000
C24_WitnessBeyondSample ==
  /\ op = "intent" /\ pc = "done"
  /\ \E k \in MatchedTerms(returned[1]) :
       ~InLoweredPrefix(text, SampleLen, intent_keywords[returned[1]][k])
  /\ \E p \in 1..Len(returned[2]) : returned[2][p] = "Keywords detected: "

\* the documents in whose first 1000 characters no classifier keyword occurs
SeededTexts == {t \in IntentTexts : NoKeywordFound(KeywordScores(t, SampleLen))}

C25_WitnessLowest ==
  /\ op = "intent" /\ pc = "done" /\ ClassifierAnswered /\ text \in SeededTexts
  /\ 4 * score.num = score.den
  /\ confidence_level = "low"

(***************************************************************************)
(* The example of the letter of thanks                                     *)
(***************************************************************************)
\* a document of three paragraphs whose second paragraph holds ThankYou
HoldsThankYou ==
  /\ op = "bullets" /\ pc # "phase1"
  /\ Len(paragraphs) = 3
  /\ InList(ThankYou, SplitSentences(paragraphs[2]))

\* the prefixes given by position
PositionalPrefixes == {PrefixIntroduction, PrefixSummary, PrefixPoint}

\* every bullet made of ThankYou carries a positional prefix
ThankYouPositional ==
  pc \in {"return", "done"} =>
    \A k \in 1..Len(bullets) :
      bullets[k] = ThankYou =>
        \E prefix \in PositionalPrefixes : enhanced_bullets[k] = prefix \o ThankYou

\* C26 as stated: in a document of three paragraphs whose second paragraph
\* holds ThankYou, phase 1 accepts that sentence, and its bullet carries a
\* positional prefix.
C26_AcceptedByPhase1 ==
  HoldsThankYou =>
    /\ pc = "phase2" => InList(ThankYou, bullets)
    /\ ThankYouPositional

\* C26 amended: phase 1 does not accept ThankYou, which holds no indicator
\* and no list marker; phase 2 accepts it, as the first sentence of its
\* paragraph or for its topic indicators, when phase 1 left fewer than 15
\* bullets, and otherwise no phase does; its bullet carries a positional
\* prefix, Introduction, Summary or Point.
C26_AcceptedByPhase2 ==
  HoldsThankYou =>
    /\ pc = "phase2" => ~InList(ThankYou, bullets)
    /\ pc # "phase2" =>
         (InList(ThankYou, bullets) <=> Len(Phase1(paragraphs, 1, <<>>)) < Phase2Threshold)
    /\ ThankYouPositional

\* phase 2 accepted ThankYou behind another sentence of its paragraph, and the
\* sentence is returned as a Point
C26_Witness ==
  /\ HoldsThankYou /\ pc = "done"
  /\ SplitSentences(paragraphs[2])[1] # ThankYou
  /\ ~InList(ThankYou, Phase1(paragraphs, 1, <<>>))
  /\ InList(PrefixPoint \o ThankYou, returned)

\* phase 1 left 15 bullets and no phase accepted ThankYou
C26_WitnessNotAccepted ==
  /\ HoldsThankYou /\ pc = "done"
  /\ Len(Phase1(paragraphs, 1, <<>>)) = Phase2Threshold
  /\ ~InList(ThankYou, bullets)

====
